---------------------------- MODULE Spec2Model ----------------------------
(***************************************************************************)
(* Model of the digest-service curation pipeline:                          *)
(*   generateDigestWithRetry -> generateDigest ->                          *)
(*     filterValidArticles, loadClient, preFilterArticles,                 *)
(*     processAllBatches (chunkArticles, processBatch), mergeBatchResults  *)
(*                                                                         *)
(* JavaScript objects live in a heap: an article list is a sequence of     *)
(* references into `heap`, so that in-place annotation of an article is    *)
(* seen through every list that holds it.  An optional value (one that may *)
(* be undefined) is a sequence of length 0 (undefined) or 1 (the value).   *)
(* A missing string is "", a missing identifier is 0 (both falsy in JS).   *)
(***************************************************************************)
EXTENDS Integers, Sequences, FiniteSets, TLC

VARIABLES
    heap,            \* article objects, indexed by reference
    articles,        \* options.articles: the caller's pool (references)
    context,         \* options.context: [topics: optional list]
    last_digest,     \* options.last_digest: optional prior digest
    maxRetries,      \* second argument of generateDigestWithRetry
    envConfigured,   \* SUPABASE_URL and SUPABASE_SERVICE_ROLE_KEY are set
    supabaseClient,  \* module-level lazily created datastore client
    pc,              \* position of the request's single thread of control
    attempt,         \* loop variable of generateDigestWithRetry
    lastError,       \* lastError of generateDigestWithRetry (optional)
    error,           \* the error in flight between a throw and its catch
    timer,           \* delay of the pending backoff timer (0: none)
    validArticles,   \* generateDigest local
    client,          \* generateDigest local (optional)
    articlesToProcess, \* generateDigest local
    batches,         \* processAllBatches local
    results,         \* processAllBatches local: the accumulator
    i,               \* processAllBatches loop index (0-based)
    inflight,        \* external calls issued and not yet answered
    outcome,         \* what the caller of generateDigestWithRetry received
    hist             \* history: attempts started, backoff waits, merger calls,
                     \* what the current attempt did so far, and the attempt
                     \* in which each element of the accumulator was produced

vars == << heap, articles, context, last_digest, maxRetries, envConfigured,
           supabaseClient, pc, attempt, lastError, error, timer,
           validArticles, client, articlesToProcess, batches, results, i,
           inflight, outcome, hist >>

-----------------------------------------------------------------------------
(* Bounds of the model *)

MaxRetriesBound == 1     \* maxRetries ranges over 0..MaxRetriesBound
MaxOver == 1             \* pools of up to PreFilterThreshold + MaxOver documents
MaxInvalid == 1          \* structurally invalid items in the raw pool
MaxCount == 1            \* oracle-reported skipped / duplicate counters
MaxTime == 1             \* clock readings 0..MaxTime
MaxBatchResults == 2     \* batch results handed to the merger on its own
MaxRuns == 2             \* runs of the merger on one list of batch results
MaxItems == 3            \* items of a raw pool handed to filterValidArticles
MaxPool == 3             \* documents of a pool handed to preFilterArticles on its own
MaxSelected == 2         \* entries of the selection list the oracle returns for it
MaxSharedPool == 1       \* other callers use the module beside runs on pools up to this size

(* Program constants *)

BATCH_SIZE == 25
MaxPriorTitles == 5
PreFilterThreshold == 100
TargetCount == 100
BaseDelay == 2000
MaxDelay == 10000

-----------------------------------------------------------------------------
(* Generic helpers standing for JavaScript built-ins *)

Min(a, b) == IF a < b THEN a ELSE b

RECURSIVE Pow2(_)
Pow2(n) == IF n = 0 THEN 1 ELSE 2 * Pow2(n - 1)

\* Array.prototype.slice(start, end) with 0-based, end-exclusive indices
Slice(s, start, end) ==
    LET e == Min(end, Len(s))
    IN  IF start >= e THEN << >> ELSE SubSeq(s, start + 1, e)

\* the elements of a sequence
Range(s) == { s[k] : k \in DOMAIN s }

\* concatenation of a sequence of sequences
RECURSIVE Concat(_)
Concat(ss) == IF ss = << >> THEN << >> ELSE Head(ss) \o Concat(Tail(ss))

\* an optional value: undefined, or a value
Undefined == << >>
Some(x) == << x >>

\* (x || 0) for an optional number
OrZero(opt) == IF opt = << >> THEN 0 ELSE opt[1]

\* (x || []) for an optional list
OrEmpty(opt) == IF opt = << >> THEN << >> ELSE opt[1]

RECURSIVE SumSeq(_)
SumSeq(s) == IF s = << >> THEN 0 ELSE Head(s) + SumSeq(Tail(s))

-----------------------------------------------------------------------------
(* article-formatter.js *)

isValidArticle_TitleOnly(article) ==
    /\ article.kind = "object"
    /\ article.title # ""

isValidArticle(article) ==
    /\ article.kind = "object"
    /\ (article.title # "" \/ article.content # "" \/ article.text # "")

\* articles: references; h: the heap they point into
filterValidArticles(h, arts) ==
    SelectSeq(arts, LAMBDA r : isValidArticle(h[r]))

-----------------------------------------------------------------------------
(* batch-processor.js *)

RECURSIVE chunkLoop_Inclusive(_, _, _)
chunkLoop_Inclusive(arts, batchSize, k) ==
    IF k <= Len(arts)
    THEN << Slice(arts, k, k + batchSize) >>
             \o chunkLoop_Inclusive(arts, batchSize, k + batchSize)
    ELSE << >>

\* Lines 19-21: the loop over the start indices k = 0, batchSize, ...
RECURSIVE chunkLoop(_, _, _)
chunkLoop(arts, batchSize, k) ==
    IF k < Len(arts)
    THEN << Slice(arts, k, k + batchSize) >> \o chunkLoop(arts, batchSize, k + batchSize)
    ELSE << >>

Reverse(s) == [k \in 1..Len(s) |-> s[Len(s) + 1 - k]]

chunkArticles_Unshift(arts, batchSize) == Reverse(chunkLoop(arts, batchSize, 0))

chunkArticles(arts, batchSize) == chunkLoop(arts, batchSize, 0)

-----------------------------------------------------------------------------
(* result-merger.js *)

\* The source object of a story after normalizeArticle ran on it.  A source
\* that already is an object is updated in place (lines 22-27).
normalizeSource(article) ==
    LET s0 == IF article.source.kind = "string"
              THEN [kind |-> "object", name |-> article.source.name, url |-> article.url]
              ELSE IF article.source.kind # "object"
              THEN [kind |-> "object", name |-> "Unknown Source", url |-> article.url]
              ELSE article.source
        s1 == IF s0.name = ""
              THEN [s0 EXCEPT !.name = IF article.source_name # ""
                                       THEN article.source_name ELSE "Unknown Source"]
              ELSE s0
    IN  IF s1.url = "" /\ article.url # "" THEN [s1 EXCEPT !.url = article.url] ELSE s1

normalizeParagraphs(article) ==
    IF article.paragraphs # << >> THEN article.paragraphs[1]
    ELSE LET text == IF article.summary # "" THEN article.summary ELSE article.content
         IN  IF text # "" THEN << text >> ELSE << >>

normalizeArticle(article) ==
    [article EXCEPT !.source = normalizeSource(article),
                    !.paragraphs = << normalizeParagraphs(article) >>,
                    !.summary = "",
                    !.content = ""]

\* What normalizeArticle leaves behind in the story it was given: the
\* source object is shared between the story and its normalized copy.
storyAfterNormalize(article) ==
    IF article.source.kind = "object"
    THEN [article EXCEPT !.source = normalizeSource(article)]
    ELSE article

Map(s, F(_)) == [k \in 1..Len(s) |-> F(s[k])]

scoreOf(a) == OrZero(a.relevance_score)

RECURSIVE insertByScore_TiesFirst(_, _)
insertByScore_TiesFirst(sorted, a) ==
    IF sorted = << >> THEN << a >>
    ELSE IF scoreOf(Head(sorted)) > scoreOf(a)
         THEN << Head(sorted) >> \o insertByScore_TiesFirst(Tail(sorted), a)
         ELSE << a >> \o sorted

\* Array.prototype.sort with comparator (b.score || 0) - (a.score || 0):
\* a stable sort, highest score first.
RECURSIVE insertByScore(_, _)
insertByScore(sorted, a) ==
    IF sorted = << >> THEN << a >>
    ELSE IF scoreOf(Head(sorted)) >= scoreOf(a)
         THEN << Head(sorted) >> \o insertByScore(Tail(sorted), a)
         ELSE << a >> \o sorted

RECURSIVE sortByScore(_)
sortByScore(s) ==
    IF s = << >> THEN << >>
    ELSE insertByScore(sortByScore(SubSeq(s, 1, Len(s) - 1)), s[Len(s)])

categorizeArticles_Overlap(arts) ==
    [main   |-> SelectSeq(arts, LAMBDA a : a.priority = "main"),
     b_side |-> SelectSeq(arts, LAMBDA a : a.priority \in {"main", "b_side"})]

categorizeArticles(arts) ==
    [main   |-> SelectSeq(arts, LAMBDA a : a.priority = "main"),
     b_side |-> SelectSeq(arts, LAMBDA a : a.priority = "b_side")]

byCategory(arts) ==
    [news         |-> SelectSeq(arts, LAMBDA a : a.category = "news"),
     business     |-> SelectSeq(arts, LAMBDA a : a.category = "business"),
     politics     |-> SelectSeq(arts, LAMBDA a : a.category = "politics"),
     eu_relations |-> SelectSeq(arts, LAMBDA a : a.category = "eu_relations")]

\* `${story.title}`: a story without title field reads as undefined
titleText(story) == IF "title" \in DOMAIN story THEN story.title ELSE "undefined"

\* topStories[0]?.title || 'Daily Update'
subjectTitle(topStories) ==
    IF /\ topStories # << >>
       /\ "title" \in DOMAIN topStories[1]
       /\ topStories[1].title # ""
    THEN topStories[1].title
    ELSE "Daily Update"

generateEmailSummary(sections, cl) ==
    LET topStories == Slice(sections.main, 0, 3)
    IN  [subject        |-> << cl.name, subjectTitle(topStories) >>,
         key_highlights |-> Map(topStories,
                               LAMBDA st : << titleText(st), st.continued_from_previous >>)]

\* line 87: the reduce over batchResults
articlesReviewed(batchResults) ==
    SumSeq(Map(batchResults, LAMBDA r : Len(r.articles) + r.skipped))

mergeBatchResults(batchResults, cl, now) ==
    LET allFilteredArticles ==
            sortByScore(Concat(Map(batchResults,
                                   LAMBDA r : Map(r.articles, normalizeArticle))))
        totalDuplicates == SumSeq(Map(batchResults, LAMBDA r : r.duplicates))
        sections == categorizeArticles(allFilteredArticles)
    IN  [report |->
            [metadata |->
                [generated_at      |-> now,
                 articles_reviewed |-> articlesReviewed(batchResults),
                 articles_included |-> Len(allFilteredArticles),
                 main_stories      |-> Len(sections.main),
                 b_side_stories    |-> Len(sections.b_side),
                 duplicates_removed |-> totalDuplicates,
                 batches_processed |-> Len(batchResults)],
             main_stories |-> sections.main,
             sections     |-> byCategory(sections.main),
             b_side       |-> byCategory(sections.b_side)],
         email |-> generateEmailSummary(sections, cl)]

\* The batch results as mergeBatchResults leaves them (in-place updates of
\* the stories' source objects by normalizeArticle).
resultsAfterMerge(batchResults) ==
    Map(batchResults, LAMBDA r : [r EXCEPT !.articles = Map(r.articles, storyAfterNormalize)])

-----------------------------------------------------------------------------
(* pre-filter.js *)

\* article.article_id || article.id   (0: neither is set)
idOf(article) == IF article.article_id # 0 THEN article.article_id ELSE article.id

\* lines 29-30: the identifier a document is shown under in the prompt.
\* Identifiers are texts: a positive number stands for a text of the caller,
\* -k for the text article_k (which the caller may use as well).
formatArticlesForPreFilter(h, arts) ==
    [k \in 1..Len(arts) |-> IF idOf(h[arts[k]]) # 0 THEN idOf(h[arts[k]]) ELSE 0 - k]

preFilterSelect_OracleOrder(h, arts, selection) ==
    Concat([k \in 1..Len(selection) |->
               SelectSeq(arts, LAMBDA r : selection[k].article_id = idOf(h[r]))])

\* lines 231-235: the pool articles whose identifier the oracle returned
preFilterSelect(h, arts, selection) ==
    SelectSeq(arts, LAMBDA r : \E k \in 1..Len(selection) :
                                  selection[k].article_id = idOf(h[r]))

\* Array.prototype.find: the first entry for an identifier (optional)
findEntry(selection, ident) ==
    LET hits == SelectSeq(selection, LAMBDA fa : fa.article_id = ident)
    IN  IF hits = << >> THEN Undefined ELSE Some(hits[1])

\* lines 238-245: the selected articles are annotated in place
preFilterAnnotate(h, filtered, selection) ==
    [r \in DOMAIN h |->
        IF \E k \in 1..Len(filtered) : filtered[k] = r
        THEN LET filterData == findEntry(selection, idOf(h[r]))
             IN  IF filterData # Undefined
                 THEN [h[r] EXCEPT !.pre_filter_score = Some(filterData[1].relevance_score),
                                   !.pre_filter_reason = Some(filterData[1].relevance_reason)]
                 ELSE h[r]
        ELSE h[r]]

-----------------------------------------------------------------------------
(* Inputs: the caller's options and the answers of the external services *)

\* A candidate document with identifier k; one without title, content and
\* text is structurally invalid.
MkDoc(k, valid) ==
    [kind |-> "object", article_id |-> k, id |-> 0,
     title |-> IF valid THEN "title" ELSE "", content |-> "", text |-> "",
     pre_filter_score |-> Undefined, pre_filter_reason |-> Undefined]

\* Pool sizes: at and just over every batch boundary up to the pre-filter
\* threshold, a partial batch (12), a full and a partial one (37), and the
\* sizes over the threshold
PoolSizes ==
    { n \in 0..PreFilterThreshold : n % BATCH_SIZE \in {0, 1} }
    \cup { 12, 37 }
    \cup { PreFilterThreshold + k : k \in 1..MaxOver }

\* A prior digest with more news stories than a prompt lists, and one
\* without article_count and without news stories
PriorDigest ==
    [created_at |-> 0, article_count |-> Some(MaxPriorTitles + 1),
     sections |-> [news |-> [k \in 1..(MaxPriorTitles + 1) |-> [title |-> << "old", k >>]]]]

ShortPriorDigest ==
    [created_at |-> 0, article_count |-> Undefined, sections |-> [news |-> << >>]]

\* The optional arguments of a request: context (with its topics) and
\* last_digest
OptionProfiles ==
    { [context |-> Undefined, last_digest |-> Undefined],
      [context |-> Some([topics |-> Some(<< >>)]), last_digest |-> Some(PriorDigest)],
      [context |-> Some([topics |-> Some(<< "Energy" >>)]),
       last_digest |-> Some(ShortPriorDigest)] }

\* Rows of the digest_clients table
ClientRows ==
    { [name |-> "Acme", preferences |-> Undefined],
      [name |-> "Acme", preferences |-> Some([topics |-> Some(<< "Energy" >>)])] }

\* Answers of supabase ... .single(): { data, error }
LoadClientResponses ==
    { [error |-> "db error", data |-> Undefined],
      [error |-> "", data |-> Undefined] }
    \cup { [error |-> "", data |-> Some(row)] : row \in ClientRows }

Story(t, score, prio, cat) ==
    [title |-> t, source |-> [kind |-> "object", name |-> "src", url |-> "u"],
     url |-> "", source_name |-> "", relevance_score |-> score,
     category |-> cat, priority |-> prio, paragraphs |-> Some(<< "p" >>),
     summary |-> "", content |-> "", continued_from_previous |-> FALSE]

\* A story the oracle returned without title field
StoryWithoutTitle(score, prio, cat) ==
    [source |-> [kind |-> "object", name |-> "src", url |-> "u"],
     url |-> "", source_name |-> "", relevance_score |-> score,
     category |-> cat, priority |-> prio, paragraphs |-> Some(<< "p" >>),
     summary |-> "", content |-> "", continued_from_previous |-> FALSE]

\* Answers of the oracle to a batch request: an HTTP failure, a body that
\* is not JSON, or a parsed JSON object whose fields may be missing.
BatchBodies ==
    { [filtered_articles |-> Some(<< Story("a", Some(8), "main", "news"),
                                     Story("b", Some(3), "b_side", "business") >>),
       skipped_count |-> Some(MaxCount), duplicate_count |-> Some(MaxCount)],
      [filtered_articles |-> Undefined,
       skipped_count |-> Undefined, duplicate_count |-> Undefined] }

BatchResponses ==
    { [ok |-> FALSE, json |-> FALSE, body |-> Undefined],
      [ok |-> TRUE, json |-> FALSE, body |-> Undefined] }
    \cup { [ok |-> TRUE, json |-> TRUE, body |-> Some(b)] : b \in BatchBodies }

SelectionEntry(ident) ==
    [article_id |-> ident, relevance_score |-> 7, relevance_reason |-> "on topic"]

\* Selection lists the pre-filter oracle may return for a pool
PreFilterSelections(h, arts) ==
    { << >>,
      [k \in 1..Len(arts) |-> SelectionEntry(idOf(h[arts[k]]))],
      << SelectionEntry(idOf(h[arts[Len(arts)]])), SelectionEntry(idOf(h[arts[1]])) >>,
      << SelectionEntry(Len(h) + 1) >> }      \* an identifier no document has

\* Answers of the oracle to the pre-filter request
PreFilterResponses(h, arts) ==
    { [ok |-> FALSE, tool_use |-> FALSE, filtered_articles |-> Undefined],
      [ok |-> TRUE, tool_use |-> FALSE, filtered_articles |-> Undefined],
      [ok |-> TRUE, tool_use |-> TRUE, filtered_articles |-> Undefined] }
    \cup { [ok |-> TRUE, tool_use |-> TRUE, filtered_articles |-> Some(sel)] :
             sel \in PreFilterSelections(h, arts) }

Times == 0..MaxTime

-----------------------------------------------------------------------------
(* Initial state: generateDigestWithRetry(options, maxRetries) was called *)

\* raised: the error the pipeline threw last; replaced: the final attempt's
\* error took the place of a different one in the wrapper; preFilter: how the
\* pre-filter stage of the attempt ended; parsed: the parsed oracle answers
\* behind the entries of the accumulator.
InitHist ==
    [attemptsStarted |-> 0, waits |-> 0, mergerCalls |-> 0,
     validated |-> FALSE, datastoreCalls |-> 0, preFilterCalls |-> 0,
     issued |-> << >>, completed |-> << >>, producedIn |-> << >>,
     raised |-> Undefined, replaced |-> FALSE,
     preFilter |-> "none", parsed |-> << >>]

\* The history of an attempt is dropped when the attempt is over
AttemptOver(h) ==
    [h EXCEPT !.validated = FALSE, !.datastoreCalls = 0, !.preFilterCalls = 0,
              !.issued = << >>, !.completed = << >>, !.preFilter = "none"]

Init ==
    \E nValid \in PoolSizes, nInvalid \in 0..MaxInvalid, opt \in OptionProfiles :
       /\ heap = [r \in 1..(nInvalid + nValid) |-> MkDoc(r, r > nInvalid)]
       /\ articles = [r \in 1..(nInvalid + nValid) |-> r]
       /\ context = opt.context
       /\ last_digest = opt.last_digest
       /\ maxRetries \in 0..MaxRetriesBound
       /\ envConfigured \in BOOLEAN
       /\ supabaseClient = "null"
       /\ pc = "loop"
       /\ attempt = 1
       /\ lastError = Undefined
       /\ error = Undefined
       /\ timer = 0
       /\ validArticles = << >>
       /\ client = Undefined
       /\ articlesToProcess = << >>
       /\ batches = << >>
       /\ results = << >>
       /\ i = 0
       /\ inflight = {}
       /\ outcome = [kind |-> "pending"]
       /\ hist = InitHist

-----------------------------------------------------------------------------
(* digest-generator.js: generateDigest inside generateDigestWithRetry *)

\* A throw inside generateDigest: caught at line 306, rethrown at 309 and
\* caught again by the wrapper at line 326.
Throw(e, h) ==
    /\ error' = Some(e)
    /\ hist' = [h EXCEPT !.raised = Some(e)]
    /\ pc' = "catch"

\* context?.topics || client.preferences?.topics || []
clientTopics(ctx, cl) ==
    IF ctx # Undefined /\ ctx[1].topics # Undefined THEN ctx[1].topics[1]
    ELSE IF cl.preferences # Undefined /\ cl.preferences[1].topics # Undefined
         THEN cl.preferences[1].topics[1]
         ELSE << >>

\* Math.min(2000 * Math.pow(2, attempt - 1), 10000)
backoffDelay(a) == Min(BaseDelay * Pow2(a - 1), MaxDelay)

\* Line 322: the condition of the retry loop
loopContinues_OneMore(a, m) == a <= m + 2

loopContinues(a, m) == a <= m + 1

\* Lines 218-233: the validation of the pool; the error thrown, if any
validationError_NoValidCheck(h, arts) ==
    IF Len(arts) = 0
    THEN Some("Articles array is required and cannot be empty")
    ELSE Undefined

validationError(h, arts) ==
    IF Len(arts) = 0
    THEN Some("Articles array is required and cannot be empty")
    ELSE IF Len(filterValidArticles(h, arts)) = 0
         THEN Some("No valid articles provided")
         ELSE Undefined

\* One iteration of the retry loop enters generateDigest, which runs up to
\* its first await: input validation, filterValidArticles, and the call of
\* loadClient (getSupabaseClient, then the datastore query is sent).
StartAttempt ==
    /\ pc = "loop"
    /\ loopContinues(attempt, maxRetries)
    /\ LET verr == validationError(heap, articles)
           h1 == [hist EXCEPT !.attemptsStarted = @ + 1, !.validated = TRUE]
       IN  /\ client' = Undefined
           /\ articlesToProcess' = << >>
           /\ validArticles' = filterValidArticles(heap, articles)
           /\ IF verr # Undefined
              THEN /\ Throw(verr[1], h1)
                   /\ UNCHANGED << supabaseClient, inflight >>
              ELSE IF supabaseClient = "null" /\ ~envConfigured
              THEN /\ Throw("Supabase credentials not configured", h1)
                   /\ UNCHANGED << supabaseClient, inflight >>
              ELSE /\ supabaseClient' = "created"
                   /\ inflight' = inflight \cup { [kind |-> "loadClient"] }
                   /\ hist' = [h1 EXCEPT !.datastoreCalls = @ + 1]
                   /\ pc' = "await_loadClient"
                   /\ UNCHANGED error
    /\ UNCHANGED << heap, articles, context, last_digest, maxRetries, envConfigured,
                    attempt, lastError, timer, batches, results, i, outcome >>

\* The datastore answers the query of loadClient (prompt-loader.js 64-80)
LoadClientReturn ==
    /\ pc = "await_loadClient"
    /\ [kind |-> "loadClient"] \in inflight
    /\ \E resp \in LoadClientResponses :
          /\ inflight' = inflight \ { [kind |-> "loadClient"] }
          /\ IF resp.error # ""
             THEN /\ Throw("Failed to load client", hist)
                  /\ UNCHANGED client
             ELSE IF resp.data = Undefined
             THEN /\ Throw("Client not found in database", hist)
                  /\ UNCHANGED client
             ELSE /\ client' = resp.data
                  /\ pc' = "prefilter"
                  /\ UNCHANGED << error, hist >>
    /\ UNCHANGED << heap, articles, context, last_digest, maxRetries, envConfigured,
                    supabaseClient, attempt, lastError, timer, validArticles,
                    articlesToProcess, batches, results, i, outcome >>

\* The exchange with the oracle for the pre-filter; answered tells whether
\* the status of the answer arrived ("ok", "failed") while the body is
\* still to be read
PreFilterRequest == [kind |-> "prefilter", answered |-> "no"]

PreFilterStage_AtThreshold ==
    /\ pc = "prefilter"
    /\ IF Len(clientTopics(context, client[1])) > 0
          /\ Len(validArticles) >= PreFilterThreshold
       THEN /\ inflight' = inflight \cup { PreFilterRequest }
            /\ hist' = [hist EXCEPT !.preFilterCalls = @ + 1, !.preFilter = "called"]
            /\ pc' = "await_prefilter"
            /\ articlesToProcess' = validArticles
       ELSE /\ articlesToProcess' = Slice(validArticles, 0, TargetCount)
            /\ hist' = [hist EXCEPT !.preFilter = "skipped"]
            /\ pc' = "batches"
            /\ UNCHANGED inflight
    /\ UNCHANGED << heap, articles, context, last_digest, maxRetries, envConfigured,
                    supabaseClient, attempt, lastError, error, timer, validArticles,
                    client, batches, results, i, outcome >>

\* Lines 243-270: the pre-filter request is sent, or the stage is skipped
PreFilterStage ==
    /\ pc = "prefilter"
    /\ IF Len(clientTopics(context, client[1])) > 0
          /\ Len(validArticles) > PreFilterThreshold
       THEN /\ inflight' = inflight \cup { PreFilterRequest }
            /\ hist' = [hist EXCEPT !.preFilterCalls = @ + 1, !.preFilter = "called"]
            /\ pc' = "await_prefilter"
            /\ articlesToProcess' = validArticles
       ELSE /\ articlesToProcess' = Slice(validArticles, 0, TargetCount)
            /\ hist' = [hist EXCEPT !.preFilter = "skipped"]
            /\ pc' = "batches"
            /\ UNCHANGED inflight
    /\ UNCHANGED << heap, articles, context, last_digest, maxRetries, envConfigured,
                    supabaseClient, attempt, lastError, error, timer, validArticles,
                    client, batches, results, i, outcome >>

\* part_006 143-208: fetch resolves with the status of the answer; the code
\* goes on to await response.text() or response.json()
PreFilterAnswered ==
    /\ pc = "await_prefilter"
    /\ PreFilterRequest \in inflight
    /\ \E ok \in BOOLEAN :
          inflight' = (inflight \ { PreFilterRequest })
                         \cup { [PreFilterRequest EXCEPT
                                    !.answered = IF ok THEN "ok" ELSE "failed"] }
    /\ UNCHANGED << heap, articles, context, last_digest, maxRetries, envConfigured,
                    supabaseClient, pc, attempt, lastError, error, timer, validArticles,
                    client, articlesToProcess, batches, results, i, outcome, hist >>

PreFilterReturn_Rethrow ==
    /\ pc = "await_prefilter"
    /\ \E req \in inflight, resp \in PreFilterResponses(heap, validArticles) :
          /\ req.kind = "prefilter"
          /\ req.answered # "no"
          /\ resp.ok <=> req.answered = "ok"
          /\ inflight' = inflight \ { req }
          /\ IF resp.ok /\ resp.tool_use /\ resp.filtered_articles # Undefined
             THEN LET selection == resp.filtered_articles[1]
                      filteredArticles == preFilterSelect(heap, validArticles, selection)
                  IN  /\ heap' = preFilterAnnotate(heap, filteredArticles, selection)
                      /\ articlesToProcess' = filteredArticles
                      /\ hist' = [hist EXCEPT !.preFilter = "selected"]
                      /\ pc' = "batches"
                      /\ UNCHANGED error
             ELSE /\ Throw("Claude API failed (pre-filter)",
                           [hist EXCEPT !.preFilter = "fallback"])
                  /\ UNCHANGED << heap, articlesToProcess >>
    /\ UNCHANGED << articles, context, last_digest, maxRetries, envConfigured,
                    supabaseClient, attempt, lastError, timer, validArticles,
                    client, batches, results, i, outcome >>

\* The body of the answer arrives (part_006 209-249): the error text of a
\* failure, or the JSON whose selection is mapped back; a failure is caught
\* by generateDigest at line 262.
PreFilterReturn ==
    /\ pc = "await_prefilter"
    /\ \E req \in inflight, resp \in PreFilterResponses(heap, validArticles) :
          /\ req.kind = "prefilter"
          /\ req.answered # "no"
          /\ resp.ok <=> req.answered = "ok"
          /\ inflight' = inflight \ { req }
          /\ IF resp.ok /\ resp.tool_use /\ resp.filtered_articles # Undefined
             THEN LET selection == resp.filtered_articles[1]
                      filteredArticles == preFilterSelect(heap, validArticles, selection)
                  IN  /\ heap' = preFilterAnnotate(heap, filteredArticles, selection)
                      /\ articlesToProcess' = filteredArticles
                      /\ hist' = [hist EXCEPT !.preFilter = "selected"]
             ELSE /\ articlesToProcess' = Slice(validArticles, 0, TargetCount)
                  /\ hist' = [hist EXCEPT !.preFilter = "fallback"]
                  /\ UNCHANGED heap
    /\ pc' = "batches"
    /\ UNCHANGED << articles, context, last_digest, maxRetries, envConfigured,
                    supabaseClient, attempt, lastError, error, timer, validArticles,
                    client, batches, results, i, outcome >>

-----------------------------------------------------------------------------
(* batch-processor.js: processAllBatches and processBatch *)

ProcessAllBatchesStart_Resume ==
    /\ pc = "batches"
    /\ batches' = chunkArticles(articlesToProcess, BATCH_SIZE)
    /\ results' = Slice(results, 0, Len(batches'))
    /\ i' = Len(results')
    /\ hist' = [hist EXCEPT !.producedIn = Slice(@, 0, Len(batches')),
                            !.parsed = Slice(@, 0, Len(batches'))]
    /\ pc' = "batch_loop"
    /\ UNCHANGED << heap, articles, context, last_digest, maxRetries, envConfigured,
                    supabaseClient, attempt, lastError, error, timer, validArticles,
                    client, articlesToProcess, inflight, outcome >>

\* Lines 223-227: partition the pool, create the empty accumulator
ProcessAllBatchesStart ==
    /\ pc = "batches"
    /\ batches' = chunkArticles(articlesToProcess, BATCH_SIZE)
    /\ results' = << >>
    /\ i' = 0
    /\ hist' = [hist EXCEPT !.producedIn = << >>, !.parsed = << >>]
    /\ pc' = "batch_loop"
    /\ UNCHANGED << heap, articles, context, last_digest, maxRetries, envConfigured,
                    supabaseClient, attempt, lastError, error, timer, validArticles,
                    client, articlesToProcess, inflight, outcome >>

continuityBlock_AllTitles(ld) ==
    IF ld = Undefined THEN Undefined
    ELSE Some([generated    |-> ld[1].created_at,
               covered      |-> OrZero(ld[1].article_count),
               titles       |-> Map(ld[1].sections.news, LAMBDA story : story.title),
               instructions |-> TRUE])

\* buildBatchPrompt 99-117: the PREVIOUS DIGEST CONTEXT block of a prompt
\* (absent without last_digest): date, article count, the titles of the
\* first stories of sections.news, and the instructions for the batch
continuityBlock(ld) ==
    IF ld = Undefined THEN Undefined
    ELSE Some([generated    |-> ld[1].created_at,
               covered      |-> OrZero(ld[1].article_count),
               titles       |-> Map(Slice(ld[1].sections.news, 0, MaxPriorTitles),
                                    LAMBDA story : story.title),
               instructions |-> TRUE])

\* The exchange with the oracle that processBatch starts for batch number n;
\* answered tells whether the status of the answer arrived
BatchRequest(n) ==
    [kind |-> "batch", batchNumber |-> n, totalBatches |-> Len(batches),
     batch |-> batches[n], has_last_digest |-> last_digest # Undefined,
     continuity |-> continuityBlock(last_digest), answered |-> "no"]

BatchIssue_NoAwait ==
    /\ pc = "batch_loop"
    /\ Len(hist.issued) < Len(batches)
    /\ inflight' = inflight \cup { BatchRequest(Len(hist.issued) + 1) }
    /\ hist' = [hist EXCEPT !.issued = Append(@, Len(@) + 1)]
    /\ UNCHANGED << heap, articles, context, last_digest, maxRetries, envConfigured,
                    supabaseClient, pc, attempt, lastError, error, timer, validArticles,
                    client, articlesToProcess, batches, results, i, outcome >>

\* Lines 228-186: the loop calls processBatch for batches[i], which builds
\* the prompt and sends the request, then suspends on the await.
BatchIssue ==
    /\ pc = "batch_loop"
    /\ i < Len(batches)
    /\ inflight' = inflight \cup { BatchRequest(i + 1) }
    /\ hist' = [hist EXCEPT !.issued = Append(@, i + 1)]
    /\ pc' = "await_batch"
    /\ UNCHANGED << heap, articles, context, last_digest, maxRetries, envConfigured,
                    supabaseClient, attempt, lastError, error, timer, validArticles,
                    client, articlesToProcess, batches, results, i, outcome >>

\* Lines 203-208: the BatchResult built from a parsed answer
batchResultOf(batchNumber, body) ==
    [batchNumber |-> batchNumber,
     articles    |-> OrEmpty(body.filtered_articles),
     skipped     |-> OrZero(body.skipped_count),
     duplicates  |-> OrZero(body.duplicate_count)]

\* batch-processor.js 170-188: fetch resolves with the status of the answer;
\* processBatch goes on to await response.text() or response.json()
BatchAnswered ==
    /\ pc = "await_batch"
    /\ \E req \in inflight, ok \in BOOLEAN :
          /\ req.kind = "batch"
          /\ req.answered = "no"
          /\ inflight' = (inflight \ { req })
                            \cup { [req EXCEPT !.answered = IF ok THEN "ok" ELSE "failed"] }
    /\ UNCHANGED << heap, articles, context, last_digest, maxRetries, envConfigured,
                    supabaseClient, pc, attempt, lastError, error, timer, validArticles,
                    client, articlesToProcess, batches, results, i, outcome, hist >>

BatchReturn_SkipFailed ==
    /\ \E req \in inflight, resp \in BatchResponses :
          /\ req.kind = "batch"
          /\ req.answered # "no"
          /\ resp.ok <=> req.answered = "ok"
          /\ inflight' = inflight \ { req }
          /\ IF ~resp.ok \/ ~resp.json
             THEN /\ i' = i + 1
                  /\ UNCHANGED << results, hist >>
             ELSE /\ results' = Append(results, batchResultOf(req.batchNumber, resp.body[1]))
                  /\ i' = i + 1
                  /\ hist' = [hist EXCEPT !.completed = Append(@, req.batchNumber),
                                          !.producedIn = Append(@, attempt),
                                          !.parsed = Append(@, resp.body[1])]
          /\ pc' = "batch_loop"
    /\ UNCHANGED << heap, articles, context, last_digest, maxRetries, envConfigured,
                    supabaseClient, attempt, lastError, error, timer, validArticles,
                    client, articlesToProcess, batches, outcome >>

BatchReturn_KeepGoing ==
    /\ \E req \in inflight, resp \in BatchResponses :
          /\ req.kind = "batch"
          /\ req.answered # "no"
          /\ resp.ok <=> req.answered = "ok"
          /\ inflight' = inflight \ { req }
          /\ IF ~resp.ok \/ ~resp.json
             THEN /\ error' = Some("Anthropic API failed for batch")
                  /\ i' = i + 1
                  /\ UNCHANGED << results, hist >>
             ELSE /\ results' = Append(results, batchResultOf(req.batchNumber, resp.body[1]))
                  /\ i' = i + 1
                  /\ hist' = [hist EXCEPT !.completed = Append(@, req.batchNumber),
                                          !.producedIn = Append(@, attempt),
                                          !.parsed = Append(@, resp.body[1])]
                  /\ UNCHANGED error
          /\ pc' = "batch_loop"
    /\ UNCHANGED << heap, articles, context, last_digest, maxRetries, envConfigured,
                    supabaseClient, attempt, lastError, timer, validArticles,
                    client, articlesToProcess, batches, outcome >>

\* The body of the answer arrives (lines 189-213): the error text of a
\* failure, a body that does not parse, or the parsed result, which the
\* loop pushes before it moves on (line 235).
BatchReturn ==
    /\ \E req \in inflight, resp \in BatchResponses :
          /\ req.kind = "batch"
          /\ req.answered # "no"
          /\ resp.ok <=> req.answered = "ok"
          /\ inflight' = inflight \ { req }
          /\ IF ~resp.ok
             THEN /\ Throw("Anthropic API failed for batch", hist)
                  /\ UNCHANGED << results, i >>
             ELSE IF ~resp.json
             THEN /\ Throw("Unexpected token in JSON", hist)
                  /\ UNCHANGED << results, i >>
             ELSE /\ results' = Append(results, batchResultOf(req.batchNumber, resp.body[1]))
                  /\ i' = i + 1
                  /\ hist' = [hist EXCEPT !.completed = Append(@, req.batchNumber),
                                          !.producedIn = Append(@, attempt),
                                          !.parsed = Append(@, resp.body[1])]
                  /\ pc' = "batch_loop"
                  /\ UNCHANGED error
    /\ UNCHANGED << heap, articles, context, last_digest, maxRetries, envConfigured,
                    supabaseClient, attempt, lastError, timer, validArticles,
                    client, articlesToProcess, batches, outcome >>

\* digest-generator.js 283-304 after the loop of processAllBatches ended
\* (line 238): merge, build the response, return it through the wrapper.
MergeAndReturn ==
    /\ pc = "batch_loop"
    /\ i >= Len(batches)
    /\ \E t1 \in Times, t2 \in Times :
          /\ t1 <= t2
          /\ LET digest == mergeBatchResults(results, client[1], t1)
                 md == digest.report.metadata
             IN  outcome' =
                   [kind |-> "returned",
                    value |-> [success |-> TRUE,
                               report |-> digest.report,
                               email |-> digest.email,
                               _metadata |->
                                  [generated_at |-> t2,
                                   articles_reviewed |-> md.articles_reviewed,
                                   articles_included |-> md.articles_included,
                                   main_stories |-> md.main_stories,
                                   b_side_stories |-> md.b_side_stories,
                                   duplicates_removed |-> md.duplicates_removed,
                                   batches_processed |-> md.batches_processed,
                                   client_name |-> client[1].name,
                                   has_previous_context |-> last_digest # Undefined]]]
    /\ results' = resultsAfterMerge(results)
    /\ hist' = [hist EXCEPT !.mergerCalls = @ + 1]
    /\ pc' = "returned"
    /\ UNCHANGED << heap, articles, context, last_digest, maxRetries, envConfigured,
                    supabaseClient, attempt, lastError, error, timer, validArticles,
                    client, articlesToProcess, batches, i, inflight >>

-----------------------------------------------------------------------------
(* digest-generator.js: generateDigestWithRetry *)

Catch_KeepFirst ==
    /\ pc = "catch"
    /\ lastError' = IF lastError # Undefined THEN lastError ELSE error
    /\ error' = Undefined
    /\ IF attempt <= maxRetries
       THEN /\ timer' = backoffDelay(attempt)
            /\ hist' = [AttemptOver(hist) EXCEPT !.waits = @ + 1]
            /\ pc' = "backoff"
            /\ UNCHANGED attempt
       ELSE /\ attempt' = attempt + 1
            /\ hist' = [AttemptOver(hist) EXCEPT
                           !.replaced = (lastError # Undefined /\ lastError # error)]
            /\ pc' = "loop"
            /\ UNCHANGED timer
    /\ UNCHANGED << heap, articles, context, last_digest, maxRetries, envConfigured,
                    supabaseClient, validArticles, client, articlesToProcess,
                    batches, results, i, inflight, outcome >>

\* Lines 326-335: the catch block of the retry loop
Catch ==
    /\ pc = "catch"
    /\ lastError' = error
    /\ error' = Undefined
    /\ IF attempt <= maxRetries
       THEN /\ timer' = backoffDelay(attempt)
            /\ hist' = [AttemptOver(hist) EXCEPT !.waits = @ + 1]
            /\ pc' = "backoff"
            /\ UNCHANGED attempt
       ELSE /\ attempt' = attempt + 1
            /\ hist' = [AttemptOver(hist) EXCEPT
                           !.replaced = (lastError # Undefined /\ lastError # error)]
            /\ pc' = "loop"
            /\ UNCHANGED timer
    /\ UNCHANGED << heap, articles, context, last_digest, maxRetries, envConfigured,
                    supabaseClient, validArticles, client, articlesToProcess,
                    batches, results, i, inflight, outcome >>

BackoffElapsed_Rearm ==
    /\ pc = "backoff"
    /\ timer' = backoffDelay(attempt)
    /\ UNCHANGED << heap, articles, context, last_digest, maxRetries, envConfigured,
                    supabaseClient, pc, attempt, lastError, error, validArticles, client,
                    articlesToProcess, batches, results, i, inflight, outcome, hist >>

\* Line 333: the backoff timer fires and the loop goes on
BackoffElapsed ==
    /\ pc = "backoff"
    /\ timer' = 0
    /\ attempt' = attempt + 1
    /\ pc' = "loop"
    /\ UNCHANGED << heap, articles, context, last_digest, maxRetries, envConfigured,
                    supabaseClient, lastError, error, validArticles, client,
                    articlesToProcess, batches, results, i, inflight, outcome, hist >>

\* Line 338: the loop is over, the last error is thrown to the caller
ThrowLastError ==
    /\ pc = "loop"
    /\ ~loopContinues(attempt, maxRetries)
    /\ outcome' = [kind |-> "thrown", value |-> lastError]
    /\ pc' = "thrown"
    /\ UNCHANGED << heap, articles, context, last_digest, maxRetries, envConfigured,
                    supabaseClient, attempt, lastError, error, timer, validArticles,
                    client, articlesToProcess, batches, results, i, inflight, hist >>

-----------------------------------------------------------------------------
(* The other exported functions of the modules: loadPrompt and
   loadPromptVariables (prompt-loader.js), which share the datastore client
   with loadClient, and generateDigestEmail and callAnthropicAPI, each of
   which sends an oracle request of its own.  The pipeline calls none of
   them; another caller in the process calls them, one call at a time. *)

OtherFunctions ==
    {"loadPrompt", "loadPromptVariables", "generateDigestEmail", "callAnthropicAPI"}

\* the calls of the pipeline, and those of the other caller
pipelineCalls == { m \in inflight : m.kind \notin OtherFunctions }

otherCalls == { m \in inflight : m.kind \in OtherFunctions }

\* the variables no other caller touches
pipelineVars ==
    << heap, articles, context, last_digest, maxRetries, envConfigured, pc, attempt,
       lastError, error, timer, validArticles, client, articlesToProcess, batches,
       results, i, outcome, hist >>

\* prompt-loader.js 31-35 and 88-92: getSupabaseClient creates the shared
\* client or throws, then the query is sent and the function waits.  A
\* loader that finds no credentials throws to its caller and leaves nothing
\* behind.
loaderCall(fn) ==
    /\ Len(articles) <= MaxSharedPool
    /\ otherCalls = {}
    /\ supabaseClient = "null" => envConfigured
    /\ supabaseClient' = "created"
    /\ inflight' = inflight \cup { [kind |-> fn, answered |-> "no"] }
    /\ UNCHANGED pipelineVars

\* the datastore answers: the loader returns the rows or throws to its
\* caller
loaderReturn(fn) ==
    /\ [kind |-> fn, answered |-> "no"] \in inflight
    /\ inflight' = inflight \ { [kind |-> fn, answered |-> "no"] }
    /\ UNCHANGED << supabaseClient, pipelineVars >>

loadPromptCall == loaderCall("loadPrompt")

loadPromptReturn == loaderReturn("loadPrompt")

loadPromptVariablesCall == loaderCall("loadPromptVariables")

loadPromptVariablesReturn == loaderReturn("loadPromptVariables")

\* article-formatter.js 115-134, part_005 104-162: the function sends its
\* request to the oracle and waits for the fetch.  callAnthropicAPI without
\* an API key throws to its caller and leaves nothing behind.
oracleCall(fn) ==
    /\ Len(articles) <= MaxSharedPool
    /\ otherCalls = {}
    /\ inflight' = inflight \cup { [kind |-> fn, answered |-> "no"] }
    /\ UNCHANGED << supabaseClient, pipelineVars >>

\* the fetch resolves with the status of the answer; the body is still to
\* be read by response.json() or response.text()
oracleAnswered(fn) ==
    /\ \E m \in otherCalls, status \in {"ok", "failed"} :
          /\ m.kind = fn
          /\ m.answered = "no"
          /\ inflight' = (inflight \ { m }) \cup { [m EXCEPT !.answered = status] }
    /\ UNCHANGED << supabaseClient, pipelineVars >>

\* the body has been read; the function returns the data or throws to its
\* caller
oracleReturn(fn) ==
    /\ \E m \in otherCalls :
          /\ m.kind = fn
          /\ m.answered # "no"
          /\ inflight' = inflight \ { m }
    /\ UNCHANGED << supabaseClient, pipelineVars >>

generateDigestEmailCall == oracleCall("generateDigestEmail")

generateDigestEmailAnswered == oracleAnswered("generateDigestEmail")

generateDigestEmailReturn == oracleReturn("generateDigestEmail")

callAnthropicAPICall == oracleCall("callAnthropicAPI")

callAnthropicAPIAnswered == oracleAnswered("callAnthropicAPI")

callAnthropicAPIReturn == oracleReturn("callAnthropicAPI")

-----------------------------------------------------------------------------

Next ==
    \/ StartAttempt
    \/ LoadClientReturn
    \/ PreFilterStage
    \/ PreFilterAnswered
    \/ PreFilterReturn
    \/ ProcessAllBatchesStart
    \/ BatchIssue
    \/ BatchAnswered
    \/ BatchReturn
    \/ loadPromptCall
    \/ loadPromptReturn
    \/ loadPromptVariablesCall
    \/ loadPromptVariablesReturn
    \/ generateDigestEmailCall
    \/ generateDigestEmailAnswered
    \/ generateDigestEmailReturn
    \/ callAnthropicAPICall
    \/ callAnthropicAPIAnswered
    \/ callAnthropicAPIReturn
    \/ MergeAndReturn
    \/ Catch
    \/ BackoffElapsed
    \/ ThrowLastError

Spec == Init /\ [][Next]_vars

\* Every datastore and oracle call returns, the backoff timer fires, and the
\* event loop runs every continuation that is ready: no step that is
\* possible is put off forever.
\* The code between the end of the loop of processAllBatches and the return
\* of generateDigest has no await: once the last batch result is pushed,
\* the merge and the return follow.
MergeReady == pc = "batch_loop" /\ i >= Len(batches)

\* Runs from requests with no document, one document, two batches, and a
\* pool over the pre-filter threshold
FairInit == Init /\ Len(articles) \in {0, 1, BATCH_SIZE + 1, PreFilterThreshold + MaxOver}

FairSpec ==
    /\ FairInit /\ [][Next]_vars
    /\ WF_vars(StartAttempt) /\ WF_vars(LoadClientReturn)
    /\ WF_vars(PreFilterStage) /\ WF_vars(PreFilterAnswered) /\ WF_vars(PreFilterReturn)
    /\ WF_vars(ProcessAllBatchesStart) /\ WF_vars(BatchIssue)
    /\ WF_vars(BatchAnswered) /\ WF_vars(BatchReturn)
    /\ WF_vars(Catch) /\ WF_vars(BackoffElapsed) /\ WF_vars(ThrowLastError)
    /\ []<>(~MergeReady)

TypeOK ==
    /\ pc \in {"loop", "await_loadClient", "prefilter", "await_prefilter", "batches",
               "batch_loop", "await_batch", "returned", "catch", "backoff", "thrown"}
    /\ attempt \in 1..(maxRetries + 2)
    /\ i \in 0..Len(batches)

-----------------------------------------------------------------------------
(* result-merger.js on its own: mergeBatchResults is run, and run again, on
   a list of batch results as processBatch builds them.  results is the
   batchResults argument, client the recipient, outcome the digest returned
   last; hist holds the number of runs, the last clock reading, the digest of
   the first run and the list as it was handed over. *)

\* Story lists the oracle may extract for a batch.  The oracle's JSON is not
\* validated, so a story may come without score or priority, with a score
\* over 10 or a category outside the four sections, with its source as
\* an object, an object without name, or a string, and with an empty title
\* or without title.
ArticleLists ==
    LET a == Story("a", Some(8), "main", "news")
        b == Story("b", Some(8), "main", "news")
        c == Story("c", Some(3), "b_side", "business")
        d == [Story("d", Undefined, "b_side", "business") EXCEPT
                 !.source = [kind |-> "object", name |-> "", url |-> ""],
                 !.source_name = "wire", !.url = "u2"]
        e == Story("e", Some(0), "b_side", "business")
        f == Story("f", Some(9), "main", "politics")
        g == Story("g", Some(11), "main", "sports")
        h == [Story("h", Some(5), "main", "eu_relations") EXCEPT
                 !.source = [kind |-> "string", name |-> "Reuters", url |-> ""],
                 !.paragraphs = Undefined, !.summary = "sum"]
        m == Story("m", Some(6), "", "news")
        n == Story("", Some(8), "main", "news")
        u == StoryWithoutTitle(Some(8), "main", "news")
    IN  { << >>, << a, b >>, << d, e, c >>, << e, d >>, << f, a >>, << g, h >>, << m >>,
          << n, a >>, << c, u >> }

\* The parsed answer of the oracle that carries a story list
BodyOf(list) ==
    [filtered_articles |-> Some(list),
     skipped_count |-> Some(MaxCount), duplicate_count |-> Some(MaxCount)]

MergerInit ==
    /\ \E n \in 0..MaxBatchResults : \E lists \in [1..n -> ArticleLists] :
          /\ results = [k \in 1..n |-> batchResultOf(k, BodyOf(lists[k]))]
          /\ hist = [mergerCalls |-> 0, clock |-> 0, first |-> Undefined,
                     input |-> results]
    /\ \E row \in ClientRows : client = Some(row)
    /\ pc = "merge"
    /\ outcome = [kind |-> "pending"]
    /\ heap = << >>
    /\ articles = << >>
    /\ context = Undefined
    /\ last_digest = Undefined
    /\ maxRetries = 0
    /\ envConfigured = TRUE
    /\ supabaseClient = "created"
    /\ attempt = 1
    /\ lastError = Undefined
    /\ error = Undefined
    /\ timer = 0
    /\ validArticles = << >>
    /\ articlesToProcess = << >>
    /\ batches = << >>
    /\ i = 0
    /\ inflight = {}

\* One call of mergeBatchResults(batchResults, client): the digest is built
\* with the clock reading of the moment, and the stories' source objects
\* are updated in place.
MergeRun ==
    /\ pc = "merge"
    /\ hist.mergerCalls < MaxRuns
    /\ \E now \in Times :
          /\ now >= hist.clock
          /\ LET digest == mergeBatchResults(results, client[1], now)
             IN  /\ outcome' = [kind |-> "returned", value |-> digest]
                 /\ hist' = [hist EXCEPT !.mergerCalls = @ + 1,
                                         !.clock = now,
                                         !.first = IF @ = Undefined THEN Some(digest) ELSE @]
    /\ results' = resultsAfterMerge(results)
    /\ UNCHANGED << heap, articles, context, last_digest, maxRetries, envConfigured,
                    supabaseClient, pc, attempt, lastError, error, timer, validArticles,
                    client, articlesToProcess, batches, i, inflight >>

MergerNext == MergeRun

MergerSpec == MergerInit /\ [][MergerNext]_vars

-----------------------------------------------------------------------------
(* article-formatter.js on its own: filterValidArticles is applied to a raw
   pool.  heap holds the items, articles the pool, validArticles the result;
   hist keeps the items as they were handed in. *)

\* Items a caller may put into the pool: null, a string, an object without
\* any of the fields, and objects with a title, a content or a text only
RawItems ==
    { [MkDoc(0, FALSE) EXCEPT !.kind = "null"],
      [MkDoc(0, FALSE) EXCEPT !.kind = "string"],
      MkDoc(0, FALSE),
      MkDoc(0, TRUE),
      [MkDoc(0, FALSE) EXCEPT !.content = "body"],
      [MkDoc(0, FALSE) EXCEPT !.text = "body"] }

FilterInit ==
    /\ \E n \in 0..MaxItems : \E items \in [1..n -> RawItems] :
          /\ heap = items
          /\ articles = [r \in 1..n |-> r]
          /\ hist = [input |-> items]
    /\ pc = "filter"
    /\ validArticles = << >>
    /\ outcome = [kind |-> "pending"]
    /\ context = Undefined
    /\ last_digest = Undefined
    /\ maxRetries = 0
    /\ envConfigured = TRUE
    /\ supabaseClient = "null"
    /\ attempt = 1
    /\ lastError = Undefined
    /\ error = Undefined
    /\ timer = 0
    /\ client = Undefined
    /\ articlesToProcess = << >>
    /\ batches = << >>
    /\ results = << >>
    /\ i = 0
    /\ inflight = {}

\* const validArticles = filterValidArticles(articles)
FilterRun ==
    /\ pc = "filter"
    /\ validArticles' = filterValidArticles(heap, articles)
    /\ pc' = "filtered"
    /\ UNCHANGED << heap, articles, context, last_digest, maxRetries, envConfigured,
                    supabaseClient, attempt, lastError, error, timer, client,
                    articlesToProcess, batches, results, i, inflight, outcome, hist >>

FilterNext == FilterRun

FilterSpec == FilterInit /\ [][FilterNext]_vars

-----------------------------------------------------------------------------
(* pre-filter.js on its own: preFilterArticles is called with a pool and a
   non-empty topic list, and the oracle answers with a selection list.  heap
   holds the documents, validArticles the pool, articlesToProcess the
   returned list; hist keeps the documents as they were handed in, the
   identifiers shown in the prompt and the oracle's selection. *)

\* Documents with article_id, with id only, with both, with neither, and
\* one whose article_id is the text article_2
PoolDocs ==
    { [MkDoc(ids[1], TRUE) EXCEPT !.id = ids[2]] :
        ids \in { << 1, 0 >>, << 2, 0 >>, << 0, 1 >>, << 1, 2 >>, << 0, 0 >>, << 0 - 2, 0 >> } }

\* Selection lists over the identifiers shown in the prompt and one that
\* was not shown; the entries carry different scores and reasons
ShownSelections(shown) ==
    LET idents == Range(shown) \cup { Len(shown) + MaxPool }
        lists == UNION { [1..n -> idents] : n \in 0..MaxSelected }
    IN  { [k \in 1..Len(l) |-> [article_id |-> l[k], relevance_score |-> k,
                                  relevance_reason |-> << "reason", k >>]] : l \in lists }

PreFilterInit ==
    /\ \E n \in 1..MaxPool : \E docs \in [1..n -> PoolDocs] :
          /\ heap = docs
          /\ validArticles = [r \in 1..n |-> r]
          /\ hist = [input |-> docs, shown |-> << >>, selection |-> << >>]
    /\ pc = "prefilter"
    /\ articlesToProcess = << >>
    /\ articles = << >>
    /\ outcome = [kind |-> "pending"]
    /\ context = Some([topics |-> Some(<< "Energy" >>)])
    /\ last_digest = Undefined
    /\ maxRetries = 0
    /\ envConfigured = TRUE
    /\ supabaseClient = "created"
    /\ attempt = 1
    /\ lastError = Undefined
    /\ error = Undefined
    /\ timer = 0
    /\ \E row \in ClientRows : client = Some(row)
    /\ batches = << >>
    /\ results = << >>
    /\ i = 0
    /\ inflight = {}

\* lines 138-143: the prompt is built and the request sent
PreFilterPrompt ==
    /\ pc = "prefilter"
    /\ hist' = [hist EXCEPT !.shown = formatArticlesForPreFilter(heap, validArticles)]
    /\ pc' = "await_prefilter"
    /\ UNCHANGED << heap, articles, context, last_digest, maxRetries, envConfigured,
                    supabaseClient, attempt, lastError, error, timer, validArticles,
                    client, articlesToProcess, batches, results, i, inflight, outcome >>

\* lines 221-249: the oracle's selection is mapped back to the pool
PreFilterMap ==
    /\ pc = "await_prefilter"
    /\ \E selection \in ShownSelections(hist.shown) :
          LET filteredArticles == preFilterSelect(heap, validArticles, selection)
          IN  /\ heap' = preFilterAnnotate(heap, filteredArticles, selection)
              /\ articlesToProcess' = filteredArticles
              /\ hist' = [hist EXCEPT !.selection = selection]
    /\ pc' = "mapped"
    /\ UNCHANGED << articles, context, last_digest, maxRetries, envConfigured,
                    supabaseClient, attempt, lastError, error, timer, validArticles,
                    client, batches, results, i, inflight, outcome >>

PreFilterNext ==
    \/ PreFilterPrompt
    \/ PreFilterMap

PreFilterSpec == PreFilterInit /\ [][PreFilterNext]_vars

-----------------------------------------------------------------------------
(* server.js: two POST /generate-digest requests are handled concurrently.
   The handler calls generateDigest({ client_id, articles, country }), so
   context and last_digest are undefined.  The local variables of a handler
   and of the generateDigest call it makes exist once per request: here pc,
   articles, validArticles, client, articlesToProcess, batches, results, i,
   error and outcome have one component per request, and outcome[q] is the
   list of responses sent for request q.  heap, envConfigured and
   supabaseClient are shared by the requests; inflight holds the requests
   that arrived and the pending calls, each with the request it belongs to.
   A step runs one request from an await to its next await: no other code
   runs in between.  hist keeps the documents as they arrived and, for each
   request, its body, whether generateDigest was called, and the answers it
   received. *)

Requests == {1, 2}

\* Request q's documents are the references of its own block of the heap:
\* PreFilterThreshold + 1 valid documents and a structurally invalid one
BlockSize == PreFilterThreshold + 2

BlockOf(q, n) == [k \in 1..n |-> (q - 1) * BlockSize + k]

\* req.body of a request: without client_id, without articles, with an
\* empty list, with one invalid document, and with pools of one document,
\* of two batches and over the pre-filter threshold
RequestBodies(q) ==
    { [client_id |-> "", articles |-> Some(BlockOf(q, 1))],
      [client_id |-> "acme", articles |-> Undefined],
      [client_id |-> "acme", articles |-> Some(<< >>)],
      [client_id |-> "acme", articles |-> Some(<< q * BlockSize >>)] }
    \cup { [client_id |-> "acme", articles |-> Some(BlockOf(q, n))] :
             n \in IF q = 1 THEN {1, PreFilterThreshold + 1} ELSE {1, BATCH_SIZE + 1} }

\* Answers to the pre-filter request: a failure, and the selections that
\* leave at most one batch
ServerPreFilterResponses(h, arts) ==
    { resp \in PreFilterResponses(h, arts) :
        \/ ~resp.ok
        \/ /\ resp.filtered_articles # Undefined
           /\ Len(resp.filtered_articles[1]) <= BATCH_SIZE }

ServerInit ==
    /\ heap = [r \in 1..(Cardinality(Requests) * BlockSize) |-> MkDoc(r, r % BlockSize # 0)]
    /\ \E bodies \in [Requests -> UNION { RequestBodies(q) : q \in Requests }] :
          /\ \A q \in Requests : bodies[q] \in RequestBodies(q)
          /\ inflight = { [kind |-> "request", req |-> q, body |-> bodies[q]] : q \in Requests }
          /\ hist = [input |-> heap,
                     req |-> [q \in Requests |->
                                [body |-> bodies[q], started |-> FALSE, row |-> Undefined,
                                 preFilter |-> Undefined, parsed |-> << >>,
                                 clock |-> Undefined]]]
    /\ envConfigured \in BOOLEAN
    /\ supabaseClient = "null"
    /\ pc = [q \in Requests |-> "arrived"]
    /\ articles = [q \in Requests |-> << >>]
    /\ validArticles = [q \in Requests |-> << >>]
    /\ client = [q \in Requests |-> Undefined]
    /\ articlesToProcess = [q \in Requests |-> << >>]
    /\ batches = [q \in Requests |-> << >>]
    /\ results = [q \in Requests |-> << >>]
    /\ i = [q \in Requests |-> 0]
    /\ error = [q \in Requests |-> Undefined]
    /\ outcome = [q \in Requests |-> << >>]
    /\ context = Undefined
    /\ last_digest = Undefined
    /\ maxRetries = 0
    /\ attempt = 1
    /\ lastError = Undefined
    /\ timer = 0

requestInvalid_ClientOnly(body) ==
    body.client_id = ""

\* part_002 line 24: !client_id || !articles || articles.length === 0
requestInvalid(body) ==
    \/ body.client_id = ""
    \/ body.articles = Undefined
    \/ Len(body.articles[1]) = 0

\* res.json / res.status(..).json: the response is sent, the handler is over
Respond(q, resp) ==
    /\ outcome' = [outcome EXCEPT ![q] = Append(@, resp)]
    /\ pc' = [pc EXCEPT ![q] = "responded"]

\* part_002 lines 50-55: an error thrown by generateDigest is caught
ServerError(q, e) ==
    /\ error' = [error EXCEPT ![q] = Some(e)]
    /\ Respond(q, [status |-> 500, body |-> [success |-> FALSE, error |-> e]])

\* part_002 lines 41-48: the result is spread into the body, and _metadata
\* is replaced by the spread of result.metadata (undefined) and the duration
SuccessResponse(digest, duration) ==
    [status |-> 200,
     body |-> [success |-> TRUE, report |-> digest.report, email |-> digest.email,
               _metadata |-> [processing_time_ms |-> duration]]]

ServerBatchRequest(q, n, bs) ==
    [kind |-> "batch", req |-> q, batchNumber |-> n, totalBatches |-> Len(bs),
     batch |-> bs[n], answered |-> "no"]

ServerPreFilterRequest(q) ==
    [kind |-> "prefilter", req |-> q, answered |-> "no"]

pushResult_Shared(res, q, r) ==
    [p \in DOMAIN res |-> Append(res[p], r)]

\* batch-processor.js line 235: results.push(result) on the accumulator of
\* the call
pushResult(res, q, r) ==
    [res EXCEPT ![q] = Append(@, r)]

\* The loop of processAllBatches is over: merge, return to the handler,
\* which reads the clock and sends the response
CompleteDigest(q, res, cl, infl, h) ==
    \E now \in Times, duration \in Times :
       /\ Respond(q, SuccessResponse(mergeBatchResults(res[q], cl, now), duration))
       /\ results' = [res EXCEPT ![q] = resultsAfterMerge(res[q])]
       /\ inflight' = infl
       /\ hist' = [h EXCEPT !.req[q].clock = Some(<< now, duration >>)]

\* processAllBatches is called with the pool and runs to its first await
StartBatches(q, pool, cl, infl, h) ==
    LET bs == chunkArticles(pool, BATCH_SIZE)
        fresh == [results EXCEPT ![q] = << >>]
    IN  /\ articlesToProcess' = [articlesToProcess EXCEPT ![q] = pool]
        /\ batches' = [batches EXCEPT ![q] = bs]
        /\ i' = [i EXCEPT ![q] = 0]
        /\ UNCHANGED error
        /\ IF Len(bs) = 0
           THEN CompleteDigest(q, fresh, cl, infl, h)
           ELSE /\ results' = fresh
                /\ inflight' = infl \cup { ServerBatchRequest(q, 1, bs) }
                /\ pc' = [pc EXCEPT ![q] = "await_batch"]
                /\ hist' = h
                /\ UNCHANGED outcome

\* part_002 lines 19-35: the handler validates the body and calls
\* generateDigest, which runs up to the await of the datastore query
PostGenerateDigest(q) ==
    /\ pc[q] = "arrived"
    /\ \E msg \in inflight :
          /\ msg.kind = "request"
          /\ msg.req = q
          /\ IF requestInvalid(msg.body)
             THEN /\ Respond(q, [status |-> 400,
                                 body |-> [success |-> FALSE,
                                           error |-> "client_id and articles are required"]])
                  /\ inflight' = inflight \ { msg }
                  /\ UNCHANGED << articles, validArticles, supabaseClient, error, hist >>
             ELSE LET arts == OrEmpty(msg.body.articles)
                      verr == validationError(heap, arts)
                  IN  /\ articles' = [articles EXCEPT ![q] = arts]
                      /\ validArticles' =
                            [validArticles EXCEPT ![q] = filterValidArticles(heap, arts)]
                      /\ hist' = [hist EXCEPT !.req[q].started = TRUE]
                      /\ IF verr # Undefined
                         THEN /\ ServerError(q, verr[1])
                              /\ inflight' = inflight \ { msg }
                              /\ UNCHANGED supabaseClient
                         ELSE IF supabaseClient = "null" /\ ~envConfigured
                         THEN /\ ServerError(q, "Supabase credentials not configured")
                              /\ inflight' = inflight \ { msg }
                              /\ UNCHANGED supabaseClient
                         ELSE /\ supabaseClient' = "created"
                              /\ inflight' = (inflight \ { msg })
                                                \cup { [kind |-> "loadClient", req |-> q] }
                              /\ pc' = [pc EXCEPT ![q] = "await_loadClient"]
                              /\ UNCHANGED << outcome, error >>
    /\ UNCHANGED << heap, context, last_digest, maxRetries, envConfigured, attempt,
                    lastError, timer, client, articlesToProcess, batches, results, i >>

\* The datastore answers: loadClient returns or throws; generateDigest goes
\* on to the pre-filter request or to the first batch request
LoadClientResumes(q) ==
    /\ pc[q] = "await_loadClient"
    /\ [kind |-> "loadClient", req |-> q] \in inflight
    /\ \E resp \in LoadClientResponses :
          LET infl == inflight \ { [kind |-> "loadClient", req |-> q] }
          IN  IF resp.error # ""
              THEN /\ ServerError(q, "Failed to load client")
                   /\ inflight' = infl
                   /\ UNCHANGED << client, articlesToProcess, batches, results, i, hist >>
              ELSE IF resp.data = Undefined
              THEN /\ ServerError(q, "Client not found in database")
                   /\ inflight' = infl
                   /\ UNCHANGED << client, articlesToProcess, batches, results, i, hist >>
              ELSE LET h == [hist EXCEPT !.req[q].row = resp.data]
                   IN  /\ client' = [client EXCEPT ![q] = resp.data]
                       /\ IF /\ Len(clientTopics(Undefined, resp.data[1])) > 0
                             /\ Len(validArticles[q]) > PreFilterThreshold
                          THEN /\ articlesToProcess' =
                                     [articlesToProcess EXCEPT ![q] = validArticles[q]]
                               /\ inflight' = infl \cup { ServerPreFilterRequest(q) }
                               /\ pc' = [pc EXCEPT ![q] = "await_prefilter"]
                               /\ hist' = h
                               /\ UNCHANGED << batches, results, i, error, outcome >>
                          ELSE StartBatches(q, Slice(validArticles[q], 0, TargetCount),
                                            resp.data[1], infl, h)
    /\ UNCHANGED << heap, articles, context, last_digest, maxRetries, envConfigured,
                    supabaseClient, attempt, lastError, timer, validArticles >>

\* await fetch(...) of a pre-filter or batch request of q resumes: the status
\* line of the answer is there, its body is not; the function goes on to
\* await response.json() or response.text() and nothing else changes
StatusArrives(q) ==
    /\ pc[q] \in {"await_prefilter", "await_batch"}
    /\ \E req \in inflight, status \in {"ok", "failed"} :
          /\ req.kind \in {"prefilter", "batch"}
          /\ req.req = q
          /\ req.answered = "no"
          /\ inflight' = (inflight \ { req }) \cup { [req EXCEPT !.answered = status] }
    /\ UNCHANGED << heap, articles, context, last_digest, maxRetries, envConfigured,
                    supabaseClient, pc, attempt, lastError, error, timer, validArticles,
                    client, articlesToProcess, batches, results, i, outcome, hist >>

\* The body of the pre-filter answer has been read: the selection is mapped
\* back, or the failure is caught and the first documents are taken
PreFilterResumes(q) ==
    /\ pc[q] = "await_prefilter"
    /\ \E req \in inflight, resp \in ServerPreFilterResponses(heap, validArticles[q]) :
          /\ req.kind = "prefilter"
          /\ req.req = q
          /\ req.answered # "no"
          /\ resp.ok <=> req.answered = "ok"
          /\ LET infl == inflight \ { req }
                 h == [hist EXCEPT !.req[q].preFilter = Some(resp)]
             IN  IF resp.ok /\ resp.tool_use /\ resp.filtered_articles # Undefined
                 THEN LET selection == resp.filtered_articles[1]
                          filteredArticles ==
                              preFilterSelect(heap, validArticles[q], selection)
                      IN  /\ heap' = preFilterAnnotate(heap, filteredArticles, selection)
                          /\ StartBatches(q, filteredArticles, client[q][1], infl, h)
                 ELSE /\ UNCHANGED heap
                      /\ StartBatches(q, Slice(validArticles[q], 0, TargetCount),
                                      client[q][1], infl, h)
    /\ UNCHANGED << articles, context, last_digest, maxRetries, envConfigured,
                    supabaseClient, attempt, lastError, timer, validArticles, client >>

\* The body of a batch answer has been read: processBatch throws, or the
\* result is pushed and the loop sends the next request or ends
BatchResumes(q) ==
    /\ pc[q] = "await_batch"
    /\ \E req \in inflight, resp \in BatchResponses :
          /\ req.kind = "batch"
          /\ req.req = q
          /\ req.answered # "no"
          /\ resp.ok <=> req.answered = "ok"
          /\ LET infl == inflight \ { req }
             IN  IF ~resp.ok
                 THEN /\ ServerError(q, "Anthropic API failed for batch")
                      /\ inflight' = infl
                      /\ UNCHANGED << results, i, hist >>
                 ELSE IF ~resp.json
                 THEN /\ ServerError(q, "Unexpected token in JSON")
                      /\ inflight' = infl
                      /\ UNCHANGED << results, i, hist >>
                 ELSE LET res == pushResult(results, q,
                                            batchResultOf(req.batchNumber, resp.body[1]))
                          h == [hist EXCEPT !.req[q].parsed = Append(@, resp.body[1])]
                      IN  /\ i' = [i EXCEPT ![q] = @ + 1]
                          /\ UNCHANGED error
                          /\ IF i[q] + 1 < Len(batches[q])
                             THEN /\ results' = res
                                  /\ inflight' = infl \cup
                                        { ServerBatchRequest(q, i[q] + 2, batches[q]) }
                                  /\ hist' = h
                                  /\ UNCHANGED << pc, outcome >>
                             ELSE CompleteDigest(q, res, client[q][1], infl, h)
    /\ UNCHANGED << heap, articles, context, last_digest, maxRetries, envConfigured,
                    supabaseClient, attempt, lastError, timer, validArticles, client,
                    articlesToProcess, batches >>

ServerNext ==
    \E q \in Requests :
       \/ PostGenerateDigest(q)
       \/ LoadClientResumes(q)
       \/ StatusArrives(q)
       \/ PreFilterResumes(q)
       \/ BatchResumes(q)

ServerSpec == ServerInit /\ [][ServerNext]_vars

-----------------------------------------------------------------------------
(* Properties *)

batchInflight == { req \in inflight : req.kind = "batch" }

\* the attempt is inside or past the extraction loop of processAllBatches
InExtraction == pc \in {"batch_loop", "await_batch", "returned"}

Ceil(n, d) == (n + d - 1) \div d

\* C1: within an attempt the batches are extracted one at a time in
\* partition order: at most one batch request is in flight; it is the
\* request for the batch right after the ones already completed and it
\* carries that batch; requests were issued for batches 1, 2, ... in this
\* order, each after the previous one completed; and the accumulator that
\* reaches the merger holds result k at position k.
C1_SequentialInOrder ==
    /\ Cardinality(batchInflight) <= 1
    /\ \A req \in batchInflight :
          /\ req.batchNumber = Len(results) + 1
          /\ req.batchNumber = hist.issued[Len(hist.issued)]
          /\ req.batch = batches[req.batchNumber]
    /\ \A k \in 1..Len(hist.issued) : hist.issued[k] = k
    /\ Len(hist.completed) <= Len(hist.issued)
    /\ Len(hist.issued) - Len(hist.completed) <= 1
    /\ \A k \in 1..Len(hist.completed) : hist.completed[k] = k
    /\ InExtraction =>
          /\ Len(results) = Len(hist.completed)
          /\ \A k \in 1..Len(results) : results[k].batchNumber = k
    /\ pc = "returned" => Len(results) = Len(batches)

\* a run of three or more batches went through to the merger
C1_Witness ==
    /\ pc = "returned"
    /\ Len(batches) >= 3
    /\ hist.completed = << 1, 2, 3 >> \o SubSeq(hist.completed, 4, Len(hist.completed))

\* C2: with maxRetries = m the pipeline is started at most m + 1 times,
\* exactly m + 1 times when the error is returned to the caller, and never
\* again once an attempt has returned a digest.
C2_BoundedAttempts ==
    /\ [](/\ hist.attemptsStarted <= maxRetries + 1
          /\ outcome.kind = "thrown" =>
                /\ hist.attemptsStarted = maxRetries + 1
                /\ outcome.value # Undefined
          /\ outcome.kind = "returned" => hist.attemptsStarted = attempt)
    /\ [][outcome.kind # "pending" =>
            hist'.attemptsStarted = hist.attemptsStarted]_vars

\* every attempt failed and the caller got the error after a retry
C2_Witness ==
    /\ outcome.kind = "thrown"
    /\ maxRetries = 1
    /\ hist.attemptsStarted = 2

\* C3: every attempt runs the whole pipeline again: once it is past the
\* recipient load it has validated the pool and queried the datastore
\* itself, its first batch request is for batch 1, and the accumulator that
\* is merged holds only results produced in this attempt.
C3_RestartFromBeginning ==
    /\ pc \in {"await_loadClient", "prefilter", "await_prefilter", "batches",
               "batch_loop", "await_batch", "returned"} =>
          /\ hist.validated
          /\ hist.datastoreCalls = 1
          /\ validArticles = filterValidArticles(heap, articles)
    /\ hist.issued # << >> => hist.issued[1] = 1
    /\ InExtraction =>
          /\ Len(hist.producedIn) = Len(results)
          /\ \A k \in 1..Len(results) : hist.producedIn[k] = attempt

\* a retry succeeded after an attempt that had already extracted a batch
C3_Witness ==
    /\ pc = "returned"
    /\ attempt = 2
    /\ lastError = Some("Unexpected token in JSON")
    /\ Len(results) >= 2

\* C4: a digest is returned only when every batch of the attempt was
\* extracted, and it is merged from one result per batch; when an attempt
\* fails the merger was not called and the caller gets an error, no digest.
C4_NoPartialSuccess ==
    /\ hist.mergerCalls = (IF outcome.kind = "returned" THEN 1 ELSE 0)
    /\ outcome.kind = "returned" =>
          /\ hist.completed = [k \in 1..Len(batches) |-> k]
          /\ Len(results) = Len(batches)
          /\ outcome.value.report.metadata.batches_processed = Len(batches)
          /\ outcome.value.success
    /\ pc = "catch" => outcome.kind = "pending"
    /\ outcome.kind = "thrown" =>
          /\ outcome.value = lastError
          /\ lastError # Undefined

\* a batch failed after an earlier batch of the attempt had succeeded
C4_Witness ==
    /\ pc = "catch"
    /\ Len(hist.completed) >= 1
    /\ Len(hist.issued) = Len(hist.completed) + 1
    /\ Len(batches) > Len(hist.issued)


\* C5: articles_reviewed of a merged digest is the sum over the batch
\* results of candidate stories + skipped + duplicates.
C5_ReviewedCountsDuplicates ==
    outcome.kind = "returned" =>
        outcome.value.report.metadata.articles_reviewed =
            SumSeq([k \in 1..Len(results) |->
                      Len(results[k].articles) + results[k].skipped
                          + results[k].duplicates])

\* C6: articles_reviewed of the returned digest is the number of documents
\* handed to batch extraction, whatever the oracle answered.
C6_ReviewedEqualsPool ==
    outcome.kind = "returned" =>
        outcome.value.report.metadata.articles_reviewed = Len(articlesToProcess)

\* C7: a pool of n documents is cut into ceil(n / 25) batches, all of 25
\* documents except the last, which holds 1 to 25; the digest reports this
\* number as batches_processed.
C7_BatchCount ==
    /\ InExtraction =>
          /\ Len(batches) = Ceil(Len(articlesToProcess), BATCH_SIZE)
          /\ \A b \in 1..(Len(batches) - 1) : Len(batches[b]) = BATCH_SIZE
          /\ Len(batches) > 0 =>
                /\ Len(batches[Len(batches)]) >= 1
                /\ Len(batches[Len(batches)]) <= BATCH_SIZE
    /\ outcome.kind = "returned" =>
          outcome.value.report.metadata.batches_processed
              = Ceil(Len(articlesToProcess), BATCH_SIZE)

\* 37 documents went through as batches of 25 and 12
C7_Witness ==
    /\ outcome.kind = "returned"
    /\ Len(articlesToProcess) = 37
    /\ Len(batches) = 2
    /\ Len(batches[1]) = 25
    /\ Len(batches[2]) = 12

\* C8: the batches, concatenated in index order, are the input list, which
\* is itself left as it was: every document is in one batch, in order.
C8_OrderPreservingPartition ==
    InExtraction =>
        /\ Concat(batches) = articlesToProcess
        /\ \A b \in 1..Len(batches) : \A j \in 1..Len(batches[b]) :
              batches[b][j] = articlesToProcess[(b - 1) * BATCH_SIZE + j]

\* a pool was cut into three or more batches, the last one partial
C8_Witness ==
    /\ pc = "batch_loop"
    /\ Len(batches) >= 3
    /\ Len(batches[Len(batches)]) < BATCH_SIZE
    /\ i = 0

ValidationErrors ==
    { Some("Articles array is required and cannot be empty"),
      Some("No valid articles provided") }

\* C9: with an empty pool, or one without a valid document, an attempt
\* fails with a validation error and has called neither the datastore nor
\* the oracle.
C9_EmptyPoolFailsFirst ==
    (Len(articles) = 0 \/ \A k \in 1..Len(articles) : ~isValidArticle(heap[articles[k]])) =>
        /\ pipelineCalls = {}
        /\ hist.datastoreCalls = 0
        /\ hist.preFilterCalls = 0
        /\ hist.issued = << >>
        /\ pc \in {"loop", "catch", "backoff", "thrown"}
        /\ pc = "catch" => error \in ValidationErrors
        /\ lastError \in ValidationErrors \cup { Undefined }
        /\ outcome.kind \in {"pending", "thrown"}

\* a pool of invalid items only was rejected
C9_Witness ==
    /\ pc = "catch"
    /\ Len(articles) > 0
    /\ error = Some("No valid articles provided")

NotRetriedErrors == ValidationErrors \cup { Some("Client not found in database") }

\* C10: after a validation error or a recipient-not-found error the wrapper
\* neither waits nor starts another attempt: it can only hand the error to
\* the caller.
C10_NoRetryOnValidation ==
    lastError \in NotRetriedErrors =>
        \/ pc = "thrown"
        \/ pc = "loop" /\ ~loopContinues(attempt, maxRetries)

\* C11: when every attempt failed, the caller gets the error that the
\* pipeline raised in the final attempt, as it was raised: the wrapper takes
\* over each error it catches unchanged, an earlier attempt's error is
\* replaced by the later one, and the error thrown is the one raised last.
C11_ErrorVerbatim ==
    /\ [](/\ pc = "catch" => error = hist.raised
          /\ outcome.kind = "thrown" =>
                /\ hist.raised # Undefined
                /\ outcome.value = hist.raised
                /\ hist.attemptsStarted = maxRetries + 1)
    /\ [][pc = "catch" /\ pc' # pc => /\ lastError' = hist.raised
                                      /\ hist'.raised = hist.raised]_vars

\* two attempts failed with different errors and the caller got an error
C11_Witness ==
    /\ outcome.kind = "thrown"
    /\ hist.attemptsStarted = 2
    /\ hist.replaced

\* the container object a batch answer is expected to be
conformsToContainer(body) ==
    /\ body.filtered_articles # Undefined
    /\ body.skipped_count # Undefined
    /\ body.duplicate_count # Undefined

\* C12: a batch answer that is not the expected container object never
\* becomes a BatchResult: every entry of the accumulator was built from an
\* answer that has the filtered_articles list and both counters.
C12_MalformedBatchFails ==
    /\ Len(hist.parsed) = Len(results)
    /\ \A k \in 1..Len(hist.parsed) : conformsToContainer(hist.parsed[k])

\* C13: when the pre-filter request fails or its answer has no tool_use
\* block or no selection list, the attempt goes on to batch extraction with
\* the first 100 documents of the normalized pool in their order: no error
\* is raised, the attempt counter stays, no document is annotated, and an
\* error in such an attempt comes from a batch request.
C13_PreFilterFailureDegrades ==
    /\ [](hist.preFilter = "fallback" =>
             /\ validArticles = filterValidArticles(heap, articles)
             /\ articlesToProcess = Slice(validArticles, 0, TargetCount)
             /\ Len(articlesToProcess) = TargetCount
             /\ InExtraction => Concat(batches) = SubSeq(validArticles, 1, TargetCount)
             /\ pc = "catch" => hist.issued # << >>)
    /\ [][pc = "await_prefilter" /\ pc' # pc /\ hist'.preFilter # "selected" =>
             /\ hist'.preFilter = "fallback"
             /\ pc' = "batches"
             /\ error' = error
             /\ lastError' = lastError
             /\ attempt' = attempt
             /\ heap' = heap
             /\ hist'.attemptsStarted = hist.attemptsStarted]_vars

\* a digest was returned by the first attempt after the pre-filter failed
C13_Witness ==
    /\ pc = "returned"
    /\ attempt = 1
    /\ hist.preFilter = "fallback"
    /\ hist.preFilterCalls = 1
    /\ Len(validArticles) > TargetCount
    /\ Len(hist.completed) = Len(batches)

\* the pre-filter stage of the attempt is over
PreFilterDecided == hist.preFilter \in {"called", "skipped", "selected", "fallback"}

\* C14 as stated: the pre-filter request is made if and only if there are
\* topics and the normalized pool has 100 documents or more; otherwise the
\* first 100 documents of the pool go on as they are.
C14_PreFilterIffNotBelow ==
    PreFilterDecided =>
        LET wanted == /\ Len(clientTopics(context, client[1])) > 0
                      /\ Len(validArticles) >= PreFilterThreshold
        IN  /\ hist.preFilterCalls = (IF wanted THEN 1 ELSE 0)
            /\ ~wanted => articlesToProcess = Slice(validArticles, 0, TargetCount)

\* C14 amended: the pre-filter request is made if and only if there are
\* topics and the normalized pool has more than 100 documents; otherwise no
\* request is made, the documents are left as they are, and the pool goes
\* on in its order, cut to its first 100 documents only when it is larger.
C14_PreFilterIffOver ==
    /\ [](PreFilterDecided =>
            LET wanted == /\ Len(clientTopics(context, client[1])) > 0
                          /\ Len(validArticles) > PreFilterThreshold
            IN  /\ hist.preFilterCalls = (IF wanted THEN 1 ELSE 0)
                /\ wanted <=> hist.preFilter # "skipped"
                /\ ~wanted =>
                      /\ \A m \in inflight : m.kind # "prefilter"
                      /\ articlesToProcess =
                            (IF Len(validArticles) > TargetCount
                             THEN SubSeq(validArticles, 1, TargetCount)
                             ELSE validArticles))
    /\ [][pc = "prefilter" /\ hist'.preFilter = "skipped" =>
             heap' = heap /\ pipelineCalls' = pipelineCalls]_vars

\* a pool of exactly 100 documents with topics went through unfiltered
C14_Witness ==
    /\ pc = "returned"
    /\ Len(validArticles) = PreFilterThreshold
    /\ Len(clientTopics(context, client[1])) > 0
    /\ hist.preFilter = "skipped"
    /\ hist.preFilterCalls = 0
    /\ articlesToProcess = validArticles

\* C15: however the pre-filter stage ended, at most 100 documents are
\* handed to the partitioner and at most 4 batch requests are made in the
\* attempt.
C15_AtMostTargetCount ==
    hist.preFilter \in {"skipped", "selected", "fallback"} =>
        /\ Len(articlesToProcess) <= TargetCount
        /\ InExtraction => Len(batches) <= TargetCount \div BATCH_SIZE
        /\ Len(hist.issued) <= TargetCount \div BATCH_SIZE

Count(s, v) == Len(SelectSeq(s, LAMBDA x : x = v))

Priorities == {"main", "b_side"}

Categories == {"news", "business", "politics", "eu_relations"}

\* the section list of a report for a priority and a category
SectionOf(report, prio, cat) ==
    IF prio = "main" THEN report.sections[cat] ELSE report.b_side[cat]

\* all stories of the eight section lists of a report
AllSections(report) ==
    report.sections.news \o report.sections.business
        \o report.sections.politics \o report.sections.eu_relations
        \o report.b_side.news \o report.b_side.business
        \o report.b_side.politics \o report.b_side.eu_relations

\* the candidate stories handed to the merger, in batch order and
\* extraction order, in the shape the digest carries them
Candidates == Concat(Map(hist.input, LAMBDA r : Map(r.articles, normalizeArticle)))

\* the merger ran on its own and returned a digest
Merged == pc = "merge" /\ outcome.kind = "returned"

\* C16: in a merged digest no story is in two sections: a story of
\* main_stories is in no b_side list, the eight section lists are pairwise
\* disjoint, and the sections together hold a story no more often than it
\* was handed to the merger.
C16_SectionsDisjoint ==
    Merged =>
        LET report == outcome.value.report
        IN  /\ \A p1, p2 \in Priorities : \A c1, c2 \in Categories :
                  << p1, c1 >> # << p2, c2 >> =>
                      Range(SectionOf(report, p1, c1))
                          \cap Range(SectionOf(report, p2, c2)) = {}
            /\ \A c \in Categories :
                  Range(report.main_stories) \cap Range(report.b_side[c]) = {}
            /\ \A v \in Range(AllSections(report)) :
                  Count(AllSections(report), v) <= Count(Candidates, v)

\* a digest with stories in both priorities and in several categories
C16_Witness ==
    /\ Merged
    /\ Len(outcome.value.report.sections.news) >= 1
    /\ Len(outcome.value.report.sections.politics) >= 1
    /\ Len(outcome.value.report.b_side.business) >= 2

\* C17: the merger loses no story: every candidate story is in the section
\* lists as often as it was handed over, a story without priority is in a
\* b_side list, and articles_included = main_stories + b_side_stories = the
\* number of stories in the section lists.
C17_NoStoryLost ==
    Merged =>
        LET report == outcome.value.report
            md == report.metadata
        IN  /\ \A v \in Range(Candidates) :
                  Count(AllSections(report), v) = Count(Candidates, v)
            /\ \A v \in Range(Candidates) :
                  v.priority = "" => \E c \in Categories : v \in Range(report.b_side[c])
            /\ md.articles_included = md.main_stories + md.b_side_stories
            /\ md.articles_included = Len(AllSections(report))

\* C18: every story of a merged digest (main_stories, sections, b_side)
\* has a relevance_score in 0..10, a priority in {main, b_side} and a
\* category among the four sections.
C18_StoriesWellFormed ==
    Merged =>
        LET report == outcome.value.report
        IN  \A v \in Range(report.main_stories) \cup Range(AllSections(report)) :
                /\ v.relevance_score # Undefined
                /\ v.relevance_score[1] \in 0..10
                /\ v.priority \in Priorities
                /\ v.category \in Categories

NonIncreasing(s) == \A k \in 1..(Len(s) - 1) : scoreOf(s[k]) >= scoreOf(s[k + 1])

\* the stories of list with a given score are the candidates with this score
\* that belong to the list, in the order they were handed over
TiesKeepOrder(list, Belongs(_)) ==
    \A sc \in { scoreOf(v) : v \in Range(Candidates) } :
        SelectSeq(list, LAMBDA v : scoreOf(v) = sc)
            = SelectSeq(Candidates, LAMBDA v : scoreOf(v) = sc /\ Belongs(v))

\* C19: main_stories and every section list are ordered by score, highest
\* first (a missing score counts as 0), and stories of equal score are in
\* batch order and, within a batch, in extraction order.
C19_StableScoreOrder ==
    Merged =>
        LET report == outcome.value.report
        IN  /\ NonIncreasing(report.main_stories)
            /\ TiesKeepOrder(report.main_stories, LAMBDA v : v.priority = "main")
            /\ \A p \in Priorities : \A c \in Categories :
                  /\ NonIncreasing(SectionOf(report, p, c))
                  /\ TiesKeepOrder(SectionOf(report, p, c),
                                   LAMBDA v : v.priority = p /\ v.category = c)

\* stories without score and with score 0 from two batches were merged
\* behind a story with a higher score that was extracted after them
C19_Witness ==
    /\ Merged
    /\ Len(hist.input) = 2
    /\ Map(hist.input[1].articles, titleText) = << "d", "e", "c" >>
    /\ Map(outcome.value.report.b_side.business, titleText)
           = << "c", "d", "e", "e", "d" >>

\* C20: a second run of the merger on the same batch results and client
\* returns the digest of the first run, field for field.
C20_RerunIdentical ==
    (Merged /\ hist.mergerCalls >= 2) => outcome.value = hist.first[1]

\* C21: no stage changes its input in place: the documents of the caller's
\* pool stay as they were handed in (no step changes the heap), and the
\* merger leaves the stories of the batch results as they were.
C21_NoInPlaceMutation ==
    [][/\ heap' = heap
       /\ (pc = "batch_loop" /\ pc' = "returned") => results' = results]_vars

\* C28: an attempt that reaches batch extraction has a non-empty pool, so
\* it makes at least one batch request, and a returned digest has
\* batches_processed >= 1.
C28_NonEmptyExtraction ==
    /\ InExtraction =>
          /\ Len(articlesToProcess) >= 1
          /\ Len(batches) >= 1
    /\ outcome.kind = "returned" =>
          /\ Len(hist.issued) >= 1
          /\ outcome.value.report.metadata.batches_processed >= 1

\* the errors processBatch raises
BatchErrors == { Some("Anthropic API failed for batch"), Some("Unexpected token in JSON") }

\* C29: batch extraction is fail-fast: when the request or the parsing of
\* batch k fails, the attempt ends with the batches 1..k issued and
\* 1..k-1 completed, nothing in flight, the accumulator without an entry
\* for batch k, and the error of processBatch in the hands of the wrapper;
\* a batch request is only ever issued from the running loop.
C29_FailFast ==
    /\ [](pc = "catch" /\ hist.issued # << >> =>
             /\ pipelineCalls = {}
             /\ error \in BatchErrors
             /\ hist.raised = error
             /\ Len(hist.completed) = Len(hist.issued) - 1
             /\ Len(results) = Len(hist.completed)
             /\ i = Len(hist.issued) - 1)
    /\ [][pc = "await_batch" /\ pc' \notin {"await_batch", "batch_loop"} =>
             /\ pc' = "catch"
             /\ error' \in BatchErrors
             /\ hist'.issued = hist.issued
             /\ pipelineCalls' = {}
             /\ results' = results]_vars
    /\ [][Len(hist'.issued) > Len(hist.issued) =>
             /\ pc = "batch_loop"
             /\ error = Undefined
             /\ Len(hist.completed) = Len(hist.issued)]_vars
    /\ [][pc = "catch" /\ pc' # pc => lastError' = error /\ hist'.issued = << >>]_vars

\* the second of three or more batches failed and the third was never sent
C29_Witness ==
    /\ pc = "catch"
    /\ Len(batches) >= 3
    /\ hist.issued = << 1, 2 >>
    /\ hist.completed = << 1 >>
    /\ error = Some("Unexpected token in JSON")

\* C23: every batch request carries the continuity block if and only if a
\* prior digest was supplied; the block has the prior digest's date and
\* article count, the instructions, and the titles of at most the first 5
\* prior stories in their order; the prior digest does not change during a
\* run, so all batches get the same block; and has_previous_context of the
\* envelope tells whether a prior digest was supplied.
C23_ContinuityBlock ==
    /\ [](\A req \in batchInflight :
             /\ req.continuity # Undefined <=> last_digest # Undefined
             /\ req.continuity = continuityBlock(last_digest)
             /\ last_digest # Undefined =>
                   LET block == req.continuity[1]
                       news == last_digest[1].sections.news
                   IN  /\ block.generated = last_digest[1].created_at
                       /\ block.instructions
                       /\ Len(block.titles) = Min(Len(news), MaxPriorTitles)
                       /\ \A k \in 1..Len(block.titles) : block.titles[k] = news[k].title)
    /\ [](outcome.kind = "returned" =>
             outcome.value._metadata.has_previous_context = (last_digest # Undefined))
    /\ [][last_digest' = last_digest]_vars

\* the second batch of a run is sent with 5 of the 6 prior titles
C23_Witness ==
    /\ pc = "await_batch"
    /\ last_digest # Undefined
    /\ \E req \in batchInflight :
          /\ req.batchNumber = 2
          /\ Len(last_digest[1].sections.news) > MaxPriorTitles
          /\ Len(req.continuity[1].titles) = MaxPriorTitles

\* C30: when every external call returns, generateDigestWithRetry ends,
\* with a digest or with an error, after at most maxRetries + 1 attempts,
\* each with at most one pre-filter request and at most one request per
\* batch; it waits exactly while one external call is in flight.
C30_Terminates ==
    /\ <>(outcome.kind \in {"returned", "thrown"})
    /\ [](/\ hist.attemptsStarted <= maxRetries + 1
          /\ hist.preFilterCalls <= 1
          /\ Len(hist.issued) <= Len(batches)
          /\ Cardinality(pipelineCalls) <= 1
          /\ pc \in {"await_loadClient", "await_prefilter", "await_batch"}
                <=> pipelineCalls # {}
          /\ outcome.kind = "pending" <=> pc \notin {"returned", "thrown"})

\* a run ended with an error after its last attempt had sent batch requests
C30_Witness ==
    /\ outcome.kind = "thrown"
    /\ hist.attemptsStarted = maxRetries + 1
    /\ maxRetries >= 1
    /\ Len(batches) >= 2
    /\ lastError \in BatchErrors
    /\ hist.preFilterCalls = 0

\* an object with a non-empty title or a non-empty body text
HasTitleOrBody(item) ==
    /\ item.kind = "object"
    /\ \/ item.title # ""
       \/ item.content # ""
       \/ item.text # ""

\* C22: filterValidArticles returns the items of the pool that are objects
\* with a non-empty title or body text, and no other: each of them once,
\* in the order of the pool, and the items are as they were handed in.
C22_FilterKeepsValid ==
    pc = "filtered" =>
        /\ \A r \in Range(articles) :
              HasTitleOrBody(hist.input[r]) <=> r \in Range(validArticles)
        /\ Range(validArticles) \subseteq Range(articles)
        /\ \A k \in 1..(Len(validArticles) - 1) : validArticles[k] < validArticles[k + 1]
        /\ heap = hist.input
        /\ articles = [r \in 1..Len(heap) |-> r]

\* a pool of a null, an object with content only and an object with title
\* only was filtered down to the two objects
C22_Witness ==
    /\ pc = "filtered"
    /\ Len(articles) = 3
    /\ heap[1].kind = "null"
    /\ heap[2].title = "" /\ heap[2].content # ""
    /\ heap[3].title # ""
    /\ validArticles = << 2, 3 >>

\* a document's own identifier: article_id, else id (0: it has neither)
OwnId(doc) == IF doc.article_id # 0 THEN doc.article_id ELSE doc.id

SelectedIds == { hist.selection[k].article_id : k \in 1..Len(hist.selection) }

\* C26: after a successful pre-filter call the returned list holds the pool
\* documents whose own identifier is in the oracle's selection and no other,
\* each once and in pool order, and each of them carries the score and the
\* reason of an entry of the selection for its identifier.
C26_SelectedInPoolOrder ==
    pc = "mapped" =>
        /\ \A r \in Range(validArticles) :
              r \in Range(articlesToProcess) <=> OwnId(hist.input[r]) \in SelectedIds
        /\ Range(articlesToProcess) \subseteq Range(validArticles)
        /\ \A k \in 1..(Len(articlesToProcess) - 1) :
              articlesToProcess[k] < articlesToProcess[k + 1]
        /\ \A r \in Range(articlesToProcess) :
              \E k \in 1..Len(hist.selection) :
                 /\ hist.selection[k].article_id = OwnId(hist.input[r])
                 /\ heap[r].pre_filter_score = Some(hist.selection[k].relevance_score)
                 /\ heap[r].pre_filter_reason = Some(hist.selection[k].relevance_reason)
        /\ \A r \in Range(validArticles) \ Range(articlesToProcess) : heap[r] = hist.input[r]

\* the oracle selected the third and then the first of three documents, and
\* the first and the third were returned, in that order, with their scores
C26_Witness ==
    /\ pc = "mapped"
    /\ Len(validArticles) = 3
    /\ Len(hist.selection) = 2
    /\ hist.selection[1].article_id = OwnId(hist.input[3])
    /\ hist.selection[2].article_id = OwnId(hist.input[1])
    /\ OwnId(hist.input[1]) # OwnId(hist.input[3])
    /\ articlesToProcess = << 1, 3 >>
    /\ heap[1].pre_filter_score = Some(2)
    /\ heap[3].pre_filter_score = Some(1)
    /\ heap[2].pre_filter_score = Undefined

\* C27: a document that the oracle selects by the identifier it was shown
\* under in the prompt is in the returned list, also when it has neither
\* article_id nor id and was shown as article_<position>.
C27_ShownSelectedPresent ==
    pc = "mapped" =>
        \A p \in 1..Len(validArticles) :
           hist.shown[p] \in SelectedIds => validArticles[p] \in Range(articlesToProcess)

\* the local variables of request q's handler and pipeline
LocalsOf(q) ==
    << pc[q], articles[q], validArticles[q], client[q], articlesToProcess[q],
       batches[q], results[q], i[q], error[q], outcome[q] >>

\* the documents request q brought, and the messages that belong to it
DocsOf(q) == Range(OrEmpty(hist.req[q].body.articles))

MessagesOf(q, msgs) == { m \in msgs : m.req = q }

\* the pool request q extracts from, computed from its body and the answer
\* to its pre-filter request, if it made one
PoolAlone(q) ==
    LET rq == hist.req[q]
        valid == filterValidArticles(hist.input, OrEmpty(rq.body.articles))
    IN  IF /\ rq.preFilter # Undefined
           /\ rq.preFilter[1].ok
           /\ rq.preFilter[1].filtered_articles # Undefined
        THEN preFilterSelect(hist.input, valid, rq.preFilter[1].filtered_articles[1])
        ELSE Slice(valid, 0, TargetCount)

\* the response to request q, computed from the answers q received alone
ResponseAlone(q) ==
    LET rq == hist.req[q]
        res == [k \in 1..Len(rq.parsed) |-> batchResultOf(k, rq.parsed[k])]
    IN  SuccessResponse(mergeBatchResults(res, rq.row[1], rq.clock[1][1]), rq.clock[1][2])

\* C24: concurrent requests do not interfere.  A step of one request, a
\* resumption after any of its waits included, leaves the local variables,
\* the documents and the pending calls of every other request as they are; the only shared variable that changes is the
\* datastore client, created once; and a request that is answered with a
\* digest is answered with the digest that its own body and the answers it
\* received determine.
C24_RequestsIsolated ==
    /\ [](\A q \in Requests :
            (pc[q] = "responded" /\ outcome[q][1].status = 200) =>
                /\ Len(hist.req[q].parsed) = Len(chunkArticles(PoolAlone(q), BATCH_SIZE))
                /\ outcome[q] = << ResponseAlone(q) >>)
    /\ [][\A q \in Requests :
            (\/ LocalsOf(q)' # LocalsOf(q)
             \/ MessagesOf(q, inflight') # MessagesOf(q, inflight)) =>
                \A p \in Requests \ {q} :
                   /\ LocalsOf(p)' = LocalsOf(p)
                   /\ \A r \in DocsOf(p) : heap'[r] = heap[r]
                   /\ MessagesOf(p, inflight') = MessagesOf(p, inflight)
                   /\ hist'.req[p] = hist.req[p]]_vars
    /\ [][/\ envConfigured' = envConfigured
          /\ supabaseClient' # supabaseClient =>
                supabaseClient = "null" /\ supabaseClient' = "created"]_vars

\* both requests are suspended in their batch loops: the first, after its
\* pre-filter request failed, has two results in its accumulator, the
\* second has one, and the two accumulators differ
C24_Witness ==
    /\ pc[1] = "await_batch"
    /\ pc[2] = "await_batch"
    /\ hist.req[1].preFilter # Undefined
    /\ Len(results[1]) = 2
    /\ Len(results[2]) = 1
    /\ results[2][1] # results[1][1]
    /\ supabaseClient = "created"

\* C25: the handler sends at most one response per request, and one when
\* nothing is pending for it any more.  A request without client_id,
\* without articles or with an empty list is answered with 400 and
\* generateDigest is not called for it; every other request is answered
\* with 500, success = false and the message of the error the pipeline
\* threw, or, when the pipeline completed, with 200 and success = true.
C25_AnsweredOnce ==
    \A q \in Requests :
       LET rq == hist.req[q]
           missing == \/ rq.body.client_id = ""
                      \/ rq.body.articles = Undefined
                      \/ rq.body.articles = Some(<< >>)
       IN  /\ Len(outcome[q]) <= 1
           /\ pc[q] = "responded" <=> Len(outcome[q]) = 1
           /\ MessagesOf(q, inflight) = {} => pc[q] = "responded"
           /\ missing => /\ ~rq.started
                         /\ pc[q] \in {"arrived", "responded"}
                         /\ error[q] = Undefined
           /\ pc[q] = "responded" =>
                 LET resp == outcome[q][1]
                 IN  /\ resp.status \in {200, 400, 500}
                     /\ resp.status = 400 <=> missing
                     /\ resp.status = 400 => ~resp.body.success
                     /\ resp.status = 500 <=> error[q] # Undefined
                     /\ resp.status = 500 =>
                           /\ rq.started
                           /\ resp.body = [success |-> FALSE, error |-> error[q][1]]
                     /\ resp.status = 200 =>
                           /\ rq.started
                           /\ resp.body.success
                           /\ rq.clock # Undefined
                           /\ i[q] = Len(batches[q])
                           /\ Len(results[q]) = Len(batches[q])

\* the first request failed in its second batch and was answered with 500
\* and the oracle's error, the second had no articles and was answered
\* with 400
C25_Witness ==
    /\ pc[1] = "responded"
    /\ outcome[1] = << [status |-> 500,
                        body |-> [success |-> FALSE,
                                  error |-> "Anthropic API failed for batch"]] >>
    /\ Len(results[1]) = 1
    /\ pc[2] = "responded"
    /\ hist.req[2].body.articles = Undefined
    /\ outcome[2][1].status = 400
    /\ ~hist.req[2].started

=============================================================================
